---- MODULE Spec2Model ----
(***************************************************************************)
(* Model of the rule matching and transformation core of                   *)
(* obsidian-folder-tag-sync: pattern compilation (glob / regex), rule      *)
(* evaluation and confidence scoring, best match and conflict detection,   *)
(* rule validation and the string transformation pipeline.                 *)
(*                                                                         *)
(* A string is a sequence of one-character strings: "a/*" is               *)
(* <<"a", "/", "*">>.  An absent (undefined) optional field is Absent.     *)
(***************************************************************************)
EXTENDS Integers, Sequences, FiniteSets, TLC

\* ------------------------------------------------------------------------
\* Bounds of the model
\* ------------------------------------------------------------------------

\* longest rule pattern, in characters
MaxPatLen == 2

\* longest folder path / tag given to the matcher, in characters
MaxInputLen == 2

\* most rules in a rule set
MaxRules == 3

\* largest priority number of a rule in a rule set
MaxPriority == 1

\* longest string given to the transformation pipeline, besides the samples
MaxPipeLen == 2

\* most transforms in a list given to applyRegexTransforms
MaxTransforms == 2

\* longest string given to the number prefix functions
MaxNumLen == 4

\* longest glob, and longest path tested against a glob
MaxGlobLen == 4
MaxPathLen == 5

\* longest string given to the case transformers
MaxCaseLen == 5

\* most snake_case / Title Case round trips made on one string
MaxRoundTrips == 5

\* longest string given to the pipeline when it is applied twice
MaxTwiceLen == 3

\* rules in settings.rules
MaxSettingsRules == 3

\* calls of DebugLogger.log started after the plugin has loaded
MaxLogCalls == 3

\* ------------------------------------------------------------------------
\* Characters
\* ------------------------------------------------------------------------

Absent == <<"absent">>

UpperChars == {"A", "B"}
LowerChars == {"a", "b"}
DigitChars == {"1"}
WhiteChars == {" "}
\* stands for a code point of the ranges removed by stripEmoji
EmojiChars == {"E"}
WordChars == UpperChars \cup LowerChars \cup DigitChars \cup {"_"}

ToLowerChar(c) == IF c = "A" THEN "a" ELSE IF c = "B" THEN "b" ELSE c
ToUpperChar(c) == IF c = "a" THEN "A" ELSE IF c = "b" THEN "B" ELSE c

\* all strings over alphabet A of length lo..hi
Strings(A, lo, hi) == UNION {[1..n -> A] : n \in lo..hi}

RECURSIVE Flatten(_)
Flatten(ss) == IF ss = <<>> THEN <<>> ELSE Head(ss) \o Flatten(Tail(ss))

\* String.prototype.trim
RECURSIVE TrimLeft(_)
TrimLeft(s) ==
    IF s # <<>> /\ Head(s) \in WhiteChars THEN TrimLeft(Tail(s)) ELSE s

RECURSIVE TrimRight(_)
TrimRight(s) ==
    IF s # <<>> /\ s[Len(s)] \in WhiteChars
    THEN TrimRight(SubSeq(s, 1, Len(s) - 1)) ELSE s

Trim(s) == TrimRight(TrimLeft(s))

\* s.replace(/[cs]+/g, rep): every maximal run of characters of cs becomes rep
RECURSIVE CollapseRuns(_, _, _)
CollapseRuns(s, cs, rep) ==
    IF s = <<>> THEN <<>>
    ELSE IF Head(s) \in cs
         THEN IF Len(s) > 1 /\ s[2] \in cs THEN CollapseRuns(Tail(s), cs, rep)
              ELSE rep \o CollapseRuns(Tail(s), cs, rep)
         ELSE <<Head(s)>> \o CollapseRuns(Tail(s), cs, rep)

\* s.replace(/[cs]/g, '')
RemoveChars(s, cs) == SelectSeq(s, LAMBDA c : c \notin cs)

\* String.prototype.toLowerCase and toUpperCase
toLowerCase(s) == [j \in 1..Len(s) |-> ToLowerChar(s[j])]
toUpperCase(s) == [j \in 1..Len(s) |-> ToUpperChar(s[j])]

\* ------------------------------------------------------------------------
\* RegExp: the engine's `new RegExp(source, flags)`, `test` and `replace`.
\* Subset: literal characters, \-escapes (\d \s \w and identity escapes),
\* `.`, character classes [..] / [^..] listing single characters, groups
\* (..) and (?:..), the assertions ^ and $, the quantifiers * + ? and
\* their lazy forms.  No alternation, no braces, no back references: the
\* alphabets below never contain | { } or a digit after a backslash.
\* A compiled expression is a sequence of nodes.
\* ------------------------------------------------------------------------

QuantChars == {"*", "+", "?"}

ReNode(k, cs, neg, body) ==
    [k |-> k, cs |-> cs, neg |-> neg, body |-> body,
     min |-> 1, many |-> FALSE, lazy |-> FALSE]

ReSyntaxError == [ok |-> FALSE, items |-> <<>>, next |-> 0]

\* the character class of a \-escape
ReEscape(e) ==
    CASE e = "d" -> ReNode("set", DigitChars, FALSE, <<>>)
      [] e = "s" -> ReNode("set", WhiteChars, FALSE, <<>>)
      [] e = "w" -> ReNode("set", WordChars, FALSE, <<>>)
      [] OTHER   -> ReNode("set", {e}, FALSE, <<>>)

\* position of the first "]" at or after i, 0 when there is none
RECURSIVE ReClassEnd(_, _)
ReClassEnd(src, i) ==
    IF i > Len(src) THEN 0
    ELSE IF src[i] = "]" THEN i
    ELSE IF src[i] = "\\" THEN ReClassEnd(src, i + 2)
    ELSE ReClassEnd(src, i + 1)

\* the quantifier at position i, if any: [min, many, lazy, next]
ReQuant(src, i) ==
    IF i > Len(src) \/ src[i] \notin QuantChars
    THEN [min |-> 1, many |-> FALSE, lazy |-> FALSE, next |-> i]
    ELSE LET lz == i + 1 <= Len(src) /\ src[i + 1] = "?"
         IN  [min  |-> IF src[i] = "+" THEN 1 ELSE 0,
              many |-> src[i] # "?",
              lazy |-> lz,
              next |-> IF lz THEN i + 2 ELSE i + 1]

RECURSIVE ReTerms(_, _, _, _)
RECURSIVE ReAtom(_, _, _)
RECURSIVE ReTermsAtom(_, _, _, _)

ReAtomError == [ok |-> FALSE, node |-> ReNode("set", {}, FALSE, <<>>), next |-> 0]

\* the group whose body parsed as inner; bad when it opens with (? but not (?:
ReGroup(inner, bad) ==
    IF bad \/ ~inner.ok THEN ReAtomError
    ELSE [ok |-> TRUE, node |-> ReNode("grp", {}, FALSE, inner.items),
          next |-> inner.next]

\* one atom starting at position i: [ok, node, next]
ReAtom(src, i, depth) ==
    LET c == src[i] IN
    CASE c = "." ->
           [ok |-> TRUE, node |-> ReNode("set", {}, TRUE, <<>>), next |-> i + 1]
      [] c = "\\" ->
           IF i = Len(src) THEN ReAtomError
           ELSE [ok |-> TRUE, node |-> ReEscape(src[i + 1]), next |-> i + 2]
      [] c = "[" ->
           LET neg  == i + 1 <= Len(src) /\ src[i + 1] = "^"
               from == IF neg THEN i + 2 ELSE i + 1
               to   == ReClassEnd(src, from)
           IN  IF to = 0 THEN ReAtomError
               ELSE [ok   |-> TRUE,
                     node |-> ReNode("set",
                                     {src[j] : j \in {x \in from..(to - 1) : src[x] # "\\"}},
                                     neg, <<>>),
                     next |-> to + 1]
      [] c = "(" ->
           LET q     == i + 1 <= Len(src) /\ src[i + 1] = "?"
               nc    == q /\ i + 2 <= Len(src) /\ src[i + 2] = ":"
           IN  ReGroup(ReTerms(src, IF nc THEN i + 3 ELSE i + 1, depth + 1, <<>>),
                       q /\ ~nc)
      [] OTHER ->
           [ok |-> TRUE, node |-> ReNode("set", {c}, FALSE, <<>>), next |-> i + 1]

\* the terms from position i up to the end of the source (depth 0) or to
\* the ")" that closes the group (depth > 0): [ok, items, next]
ReTerms(src, i, depth, acc) ==
    IF i > Len(src)
    THEN IF depth > 0 THEN ReSyntaxError
         ELSE [ok |-> TRUE, items |-> acc, next |-> i]
    ELSE LET c == src[i] IN
         CASE c = ")" ->
                IF depth > 0 THEN [ok |-> TRUE, items |-> acc, next |-> i + 1]
                ELSE ReSyntaxError
           [] c \in QuantChars -> ReSyntaxError
           [] c = "^" ->
                ReTerms(src, i + 1, depth, Append(acc, ReNode("bol", {}, FALSE, <<>>)))
           [] c = "$" ->
                ReTerms(src, i + 1, depth, Append(acc, ReNode("eol", {}, FALSE, <<>>)))
           [] OTHER -> ReTermsAtom(src, depth, acc, ReAtom(src, i, depth))

\* node with the quantifier q, then the terms after it
ReTermsQuant(src, depth, acc, node, q) ==
    ReTerms(src, q.next, depth,
            Append(acc, [node EXCEPT !.min = q.min, !.many = q.many,
                                     !.lazy = q.lazy]))

\* the atom a, its quantifier, then the terms after it
ReTermsAtom(src, depth, acc, a) ==
    IF ~a.ok THEN ReSyntaxError
    ELSE ReTermsQuant(src, depth, acc, a.node, ReQuant(src, a.next))

ValidFlagChars == {"g", "i"}

\* new RegExp(source, flags): ok = FALSE stands for the SyntaxError thrown
RegExpCompiled(p, fl) ==
    IF (\E j \in 1..Len(fl) : fl[j] \notin ValidFlagChars)
       \/ (\E j, k \in 1..Len(fl) : j # k /\ fl[j] = fl[k])
       \/ ~p.ok
    THEN [ok |-> FALSE, items |-> <<>>, global |-> FALSE, icase |-> FALSE]
    ELSE [ok |-> TRUE, items |-> p.items,
          global |-> \E j \in 1..Len(fl) : fl[j] = "g",
          icase  |-> \E j \in 1..Len(fl) : fl[j] = "i"]

RegExpNew(source, flags) ==
    RegExpCompiled(ReTerms(source, 1, 0, <<>>),
                   IF flags = Absent THEN <<>> ELSE flags)

ReCharMatches(node, c, icase) ==
    LET in == IF icase
              THEN \E d \in node.cs : ToLowerChar(d) = ToLowerChar(c)
              ELSE c \in node.cs
    IN  IF node.neg THEN ~in ELSE in

RECURSIVE ReEndsSeq(_, _, _, _)
RECURSIVE ReEndsItem(_, _, _, _)
RECURSIVE ReEndsStar(_, _, _, _)
RECURSIVE ReEndsEach(_, _, _, _, _)
RECURSIVE ReEndsQuantified(_, _, _, _, _)
RECURSIVE ReEndsRest(_, _, _, _)

\* the positions where one occurrence of node, started at pos, can end, in
\* the order the backtracking engine tries them
ReEndsOnce(node, s, pos, icase) ==
    CASE node.k = "set" ->
           IF pos <= Len(s) /\ ReCharMatches(node, s[pos], icase)
           THEN <<pos + 1>> ELSE <<>>
      [] node.k = "bol" -> IF pos = 1 THEN <<pos>> ELSE <<>>
      [] node.k = "eol" -> IF pos = Len(s) + 1 THEN <<pos>> ELSE <<>>
      [] OTHER -> ReEndsSeq(node.body, s, pos, icase)

\* for each end e of ends, in order: the ends of node* started at e
\* (an iteration that consumes nothing is not repeated)
ReEndsEach(ends, node, s, pos, icase) ==
    IF ends = <<>> THEN <<>>
    ELSE (IF Head(ends) > pos THEN ReEndsStar(node, s, Head(ends), icase) ELSE <<>>)
         \o ReEndsEach(Tail(ends), node, s, pos, icase)

ReEndsStar(node, s, pos, icase) ==
    LET more == ReEndsEach(ReEndsOnce(node, s, pos, icase), node, s, pos, icase)
    IN  IF node.lazy THEN <<pos>> \o more ELSE more \o <<pos>>

\* the ends of node with its quantifier, once being the ends of one occurrence
ReEndsQuantified(node, s, pos, icase, once) ==
    IF node.many
    THEN IF node.min = 0 THEN ReEndsStar(node, s, pos, icase)
         ELSE Flatten([j \in 1..Len(once) |-> ReEndsStar(node, s, once[j], icase)])
    ELSE IF node.min = 0
         THEN (IF node.lazy THEN <<pos>> \o once ELSE once \o <<pos>>)
         ELSE once

ReEndsItem(node, s, pos, icase) ==
    ReEndsQuantified(node, s, pos, icase, ReEndsOnce(node, s, pos, icase))

\* the ends of items started at each end of first, in order
ReEndsRest(items, s, icase, first) ==
    Flatten([j \in 1..Len(first) |-> ReEndsSeq(items, s, first[j], icase)])

ReEndsSeq(items, s, pos, icase) ==
    IF items = <<>> THEN <<pos>>
    ELSE ReEndsRest(Tail(items), s, icase, ReEndsItem(Head(items), s, pos, icase))

\* regex.test(s)
RegExpTest(re, s) ==
    \E st \in 1..(Len(s) + 1) : ReEndsSeq(re.items, s, st, re.icase) # <<>>

\* s.replace(regex, replacement) from position pos on; the replacement is
\* literal text (the alphabets contain no "$")
RECURSIVE RegExpReplaceFrom(_, _, _, _)
RECURSIVE RegExpReplaceMatch(_, _, _, _, _, _)
RECURSIVE RegExpReplaceAt(_, _, _, _, _)

\* the match st..e is replaced; a global expression goes on after it
RegExpReplaceMatch(re, s, pos, replacement, st, e) ==
    SubSeq(s, pos, st - 1) \o replacement \o
    (IF ~re.global THEN SubSeq(s, e, Len(s))
     ELSE IF e > st THEN RegExpReplaceFrom(re, s, e, replacement)
     ELSE IF st > Len(s) THEN <<>>
     ELSE <<s[st]>> \o RegExpReplaceFrom(re, s, st + 1, replacement))

\* starts: the positions from pos on where the expression matches
RegExpReplaceAt(re, s, pos, replacement, starts) ==
    IF starts = {} THEN SubSeq(s, pos, Len(s))
    ELSE LET st == CHOOSE x \in starts : \A y \in starts : x <= y
         IN  RegExpReplaceMatch(re, s, pos, replacement, st,
                                Head(ReEndsSeq(re.items, s, st, re.icase)))

RegExpReplaceFrom(re, s, pos, replacement) ==
    RegExpReplaceAt(re, s, pos, replacement,
                    {st \in pos..(Len(s) + 1) :
                        ReEndsSeq(re.items, s, st, re.icase) # <<>>})

RegExpReplace(re, s, replacement) == RegExpReplaceFrom(re, s, 1, replacement)

\* ------------------------------------------------------------------------
\* Completions: a call either returns a value or throws
\* ------------------------------------------------------------------------

Return(v) == [threw |-> FALSE, val |-> v]
Throw == [threw |-> TRUE, val |-> <<>>]

\* the null result of a matching function
Null == [null |-> TRUE]

\* ------------------------------------------------------------------------
\* regexTransformers
\* ------------------------------------------------------------------------

\* s.replace(/pat/g, rep) for a literal, non-empty pat
RECURSIVE ReplaceAllLit(_, _, _)
ReplaceAllLit(s, pat, rep) ==
    IF Len(s) < Len(pat) THEN s
    ELSE IF SubSeq(s, 1, Len(pat)) = pat
         THEN rep \o ReplaceAllLit(SubSeq(s, Len(pat) + 1, Len(s)), pat, rep)
         ELSE <<Head(s)>> \o ReplaceAllLit(Tail(s), pat, rep)

\* s.replace(/pat$/, rep) and s.replace(/^pat/, rep) for a literal pat
ReplaceSuffixLit(s, pat, rep) ==
    IF Len(s) >= Len(pat) /\ SubSeq(s, Len(s) - Len(pat) + 1, Len(s)) = pat
    THEN SubSeq(s, 1, Len(s) - Len(pat)) \o rep
    ELSE s

ReplacePrefixLit(s, pat, rep) ==
    IF Len(s) >= Len(pat) /\ SubSeq(s, 1, Len(pat)) = pat
    THEN rep \o SubSeq(s, Len(pat) + 1, Len(s))
    ELSE s

\* the characters globToRegex escapes: . + ^ $ { } ( ) | [ ] \
GlobEscaped == {".", "+", "^", "$", "{", "}", "(", ")", "|", "[", "]", "\\"}

\* the placeholders of globToRegex; each is one symbol here, the alphabets
\* contain no NUL character
DOUBLE_STAR_PLACEHOLDER == "<DOUBLESTAR>"
PATH_SEG_PLACEHOLDER == "<PATHSEG>"
START_PATH_SEG_PLACEHOLDER == "<STARTPATHSEG>"

\* a conversion whose single * is .* and crosses the slashes
globToRegexStarAny(glob) ==
    LET r1 == Flatten([j \in 1..Len(glob) |->
                         IF glob[j] \in GlobEscaped THEN <<"\\", glob[j]>>
                         ELSE <<glob[j]>>])
        r2 == ReplaceAllLit(r1, <<"/", "*", "*", "/">>, <<PATH_SEG_PLACEHOLDER>>)
        r3 == ReplaceSuffixLit(r2, <<"/", "*", "*">>, <<"/", DOUBLE_STAR_PLACEHOLDER>>)
        r4 == ReplacePrefixLit(r3, <<"*", "*", "/">>, <<START_PATH_SEG_PLACEHOLDER>>)
        r5 == ReplaceAllLit(r4, <<"*", "*">>, <<DOUBLE_STAR_PLACEHOLDER>>)
        r6 == ReplaceAllLit(r5, <<"*">>, <<".", "*">>)
        r7 == ReplaceAllLit(r6, <<"?">>, <<".">>)
        r8 == ReplaceAllLit(r7, <<DOUBLE_STAR_PLACEHOLDER>>, <<".", "*">>)
        r9 == ReplaceAllLit(r8, <<PATH_SEG_PLACEHOLDER>>,
                  <<"(", "?", ":", "/", "[", "^", "/", "]", "+", ")", "*", "/">>)
        r10 == ReplaceAllLit(r9, <<START_PATH_SEG_PLACEHOLDER>>,
                  <<"(", "?", ":", "[", "^", "/", "]", "+", "/", ")", "*">>)
    IN  <<"^">> \o r10 \o <<"$">>

globToRegex(glob) ==
    LET r1 == Flatten([j \in 1..Len(glob) |->
                         IF glob[j] \in GlobEscaped THEN <<"\\", glob[j]>>
                         ELSE <<glob[j]>>])
        r2 == ReplaceAllLit(r1, <<"/", "*", "*", "/">>, <<PATH_SEG_PLACEHOLDER>>)
        r3 == ReplaceSuffixLit(r2, <<"/", "*", "*">>, <<"/", DOUBLE_STAR_PLACEHOLDER>>)
        r4 == ReplacePrefixLit(r3, <<"*", "*", "/">>, <<START_PATH_SEG_PLACEHOLDER>>)
        r5 == ReplaceAllLit(r4, <<"*", "*">>, <<DOUBLE_STAR_PLACEHOLDER>>)
        r6 == ReplaceAllLit(r5, <<"*">>, <<"[", "^", "/", "]", "*">>)
        r7 == ReplaceAllLit(r6, <<"?">>, <<".">>)
        r8 == ReplaceAllLit(r7, <<DOUBLE_STAR_PLACEHOLDER>>, <<".", "*">>)
        r9 == ReplaceAllLit(r8, <<PATH_SEG_PLACEHOLDER>>,
                  <<"(", "?", ":", "/", "[", "^", "/", "]", "+", ")", "*", "/">>)
        r10 == ReplaceAllLit(r9, <<START_PATH_SEG_PLACEHOLDER>>,
                  <<"(", "?", ":", "[", "^", "/", "]", "+", "/", ")", "*">>)
    IN  <<"^">> \o r10 \o <<"$">>

isGlobPattern(pattern) ==
    \E j \in 1..Len(pattern) : pattern[j] \in {"*", "?"}

\* the compiled expression; ok = FALSE stands for the SyntaxError thrown
patternToRegex(pattern) ==
    IF isGlobPattern(pattern)
    THEN RegExpNew(globToRegex(pattern), Absent)
    ELSE RegExpNew(pattern, Absent)

\* regex.test(input), the SyntaxError of new RegExp escaping
TestUncaught(regex, input) ==
    IF ~regex.ok THEN Throw ELSE Return(RegExpTest(regex, input))

\* a version that lets the SyntaxError of new RegExp escape
matchesPatternNoCatch(input, pattern, flags) ==
    TestUncaught(RegExpNew(pattern, flags), input)

\* try { return regex.test(input) } catch { return false }
TestCaught(regex, input) ==
    IF ~regex.ok THEN Return(FALSE) ELSE Return(RegExpTest(regex, input))

matchesPattern(input, pattern, flags) ==
    TestCaught(RegExpNew(pattern, flags), input)

\* try { return input.replace(regex, replacement) } catch { return input }
ReplaceCaught(regex, input, replacement) ==
    IF ~regex.ok THEN Return(input)
    ELSE Return(RegExpReplace(regex, input, replacement))

applyRegexTransform(input, transform) ==
    ReplaceCaught(RegExpNew(transform.pattern,
                            IF transform.flags = Absent \/ transform.flags = <<>>
                            THEN <<"g">> ELSE transform.flags),
                  input, transform.replacement)

\* the transforms applied from the last one to the first
RECURSIVE applyRegexTransformsReversed(_, _)
applyRegexTransformsReversed(input, transforms) ==
    IF transforms = <<>> THEN Return(input)
    ELSE applyRegexTransform(
             applyRegexTransformsReversed(input, Tail(transforms)).val,
             Head(transforms))

RECURSIVE applyRegexTransforms(_, _)
RECURSIVE ApplyRemainingTransforms(_, _)

\* the reduce step: r is the completion of the transform before
ApplyRemainingTransforms(r, transforms) ==
    IF r.threw THEN Throw ELSE applyRegexTransforms(r.val, transforms)

applyRegexTransforms(input, transforms) ==
    IF transforms = <<>> THEN Return(input)
    ELSE ApplyRemainingTransforms(applyRegexTransform(input, Head(transforms)),
                                  Tail(transforms))

\* ------------------------------------------------------------------------
\* ruleMatcher
\* ------------------------------------------------------------------------

Directions == {"folder-to-tag", "tag-to-folder", "bidirectional"}

\* context.direction left undefined
NoDirection == "undefined"

\* number of occurrences of the characters of cs in s
CountChars(s, cs) == Cardinality({j \in 1..Len(s) : s[j] \in cs})

\* A confidence is the exact value num / den of the floating point result,
\* or one of the two non-finite results a division by input.length = 0 gives.
Conf(num, den) == [kind |-> "num", num |-> num, den |-> den]
ConfInfinity == [kind |-> "inf", num |-> 1, den |-> 0]
ConfNaN == [kind |-> "nan", num |-> 0, den |-> 0]

\* pattern.length after removing * and ?, divided by input.length, plus the
\* finite terms: the unclamped confidence
ConfidenceSum(input, pattern) ==
    LET wildcardCount == CountChars(pattern, {"*"})
        questionMarkCount == CountChars(pattern, {"?"})
        patternLength == Len(pattern) - CountChars(pattern, {"*", "?"})
        slashCount == CountChars(pattern, {"/"})
        base == 50 - wildcardCount * 10 - questionMarkCount * 5 + slashCount * 5
    IN  IF Len(input) = 0
        THEN IF patternLength = 0 THEN ConfNaN ELSE ConfInfinity
        ELSE Conf(base * Len(input) + 20 * patternLength, 100 * Len(input))

\* Math.max(0, Math.min(1, confidence))
Clamp01(c) ==
    CASE c.kind = "nan" -> ConfNaN
      [] c.kind = "inf" -> Conf(1, 1)
      [] OTHER -> IF c.num > c.den THEN Conf(1, 1)
                  ELSE IF c.num < 0 THEN Conf(0, 1)
                  ELSE c

\* a version without the final clamp
calculateMatchConfidenceNoClamp(input, pattern) ==
    IF pattern = input THEN Conf(1, 1) ELSE ConfidenceSum(input, pattern)

calculateMatchConfidence(input, pattern) ==
    IF pattern = input THEN Conf(1, 1)
    ELSE Clamp01(ConfidenceSum(input, pattern))

\* sign of a - b for two confidences; 0 when the difference is NaN
ConfCompare(a, b) ==
    IF a.kind = "nan" \/ b.kind = "nan" THEN 0
    ELSE IF a.kind = "inf" \/ b.kind = "inf"
         THEN (IF a.kind = b.kind THEN 0 ELSE IF a.kind = "inf" THEN 1 ELSE -1)
    ELSE LET l == a.num * b.den
             r == b.num * a.den
         IN  IF l > r THEN 1 ELSE IF l < r THEN -1 ELSE 0

\* !pattern: the field is undefined or the empty string
NoPattern(pattern) == pattern = Absent \/ pattern = <<>>

\* the pattern of the rule the context selects
SelectedPattern(rule, context) ==
    IF context.matchType = "folder" THEN rule.folderPattern ELSE rule.tagPattern

\* the RuleMatch, or null, once matchesPattern has completed with m
MatchOrNull(m, input, rule, context, pattern) ==
    IF m.threw THEN Throw
    ELSE IF ~m.val THEN Return(Null)
    ELSE Return([rule |-> rule,
                 matchType |-> context.matchType,
                 matchedPattern |-> pattern,
                 confidence |-> calculateMatchConfidence(input, pattern)])

\* from the pattern check on
EvaluatePattern(input, rule, context, pattern) ==
    IF NoPattern(pattern) THEN Return(Null)
    ELSE MatchOrNull(matchesPattern(input, pattern, Absent),
                     input, rule, context, pattern)

\* a version that skips the direction check
evaluateRuleNoDirection(input, rule, context) ==
    IF ~rule.enabled /\ ~context.includeDisabled THEN Return(Null)
    ELSE EvaluatePattern(input, rule, context, SelectedPattern(rule, context))

evaluateRule(input, rule, context) ==
    IF ~rule.enabled /\ ~context.includeDisabled THEN Return(Null)
    ELSE IF context.direction # NoDirection /\ rule.direction # "bidirectional"
            /\ rule.direction # context.direction THEN Return(Null)
    ELSE EvaluatePattern(input, rule, context, SelectedPattern(rule, context))

RECURSIVE findMatchingRulesFrom(_, _, _, _)
RECURSIVE PushMatch(_, _, _, _, _)

\* the loop body after evaluateRule has completed with match
PushMatch(match, input, rest, context, matches) ==
    IF match.threw THEN Throw
    ELSE findMatchingRulesFrom(input, rest, context,
             IF match.val # Null THEN Append(matches, match.val) ELSE matches)

findMatchingRulesFrom(input, rules, context, matches) ==
    IF rules = <<>> THEN Return(matches)
    ELSE PushMatch(evaluateRule(input, Head(rules), context),
                   input, Tail(rules), context, matches)

\* a version that collects the matches from the last rule to the first
findMatchingRulesLastFirst(input, rules, context) ==
    findMatchingRulesFrom(input,
        [i \in 1..Len(rules) |-> rules[Len(rules) + 1 - i]], context, <<>>)

findMatchingRules(input, rules, context) ==
    findMatchingRulesFrom(input, rules, context, <<>>)

\* a comparator that forgets the confidence
BestMatchComparePriorityOnly(a, b) == a.rule.priority - b.rule.priority

\* the comparator of findBestMatch: negative when a sorts before b
BestMatchCompare(a, b) ==
    IF a.rule.priority # b.rule.priority
    THEN a.rule.priority - b.rule.priority
    ELSE ConfCompare(b.confidence, a.confidence)

\* an insertion that puts m before the elements it compares equal to: a
\* sort that is not stable
RECURSIVE SortInsertBeforeEqual(_, _)
SortInsertBeforeEqual(sorted, m) ==
    IF sorted = <<>> THEN <<m>>
    ELSE IF BestMatchCompare(m, Head(sorted)) <= 0 THEN <<m>> \o sorted
    ELSE <<Head(sorted)>> \o SortInsertBeforeEqual(Tail(sorted), m)

\* Array.prototype.sort with that comparator: a stable sort
RECURSIVE SortInsert(_, _)
SortInsert(sorted, m) ==
    IF sorted = <<>> THEN <<m>>
    ELSE IF BestMatchCompare(m, Head(sorted)) < 0 THEN <<m>> \o sorted
    ELSE <<Head(sorted)>> \o SortInsert(Tail(sorted), m)

RECURSIVE SortMatches(_, _)
SortMatches(matches, sorted) ==
    IF matches = <<>> THEN sorted
    ELSE SortMatches(Tail(matches), SortInsert(sorted, Head(matches)))

\* the first of the sorted matches, null when there is none
FirstSorted(matches) ==
    IF matches.threw THEN Throw
    ELSE IF Len(matches.val) = 0 THEN Return(Null)
    ELSE Return(Head(SortMatches(matches.val, <<>>)))

findBestMatch(input, rules, context) ==
    FirstSorted(findMatchingRules(input, rules, context))

\* the caller's array as a sort applied to it, and not to matches, leaves it
rulesSortedByPriority(rules, matches) ==
    [j \in 1..Len(rules) |->
        SortMatches([k \in 1..Len(rules) |->
                        [rule |-> rules[k], confidence |-> Conf(0, 1)]],
                    <<>>)[j].rule]

\* the caller's array after findBestMatch: the for-of loop of
\* findMatchingRules reads it, and matches.sort sorts matches, the array that
\* loop built, in place
rulesAfterFindBestMatch(rules, matches) == rules

\* the Map of findConflicts: the priorities in order of first occurrence
RECURSIVE PriorityKeys(_, _)
PriorityKeys(matches, keys) ==
    IF matches = <<>> THEN keys
    ELSE PriorityKeys(Tail(matches),
             IF \E j \in 1..Len(keys) : keys[j] = Head(matches).rule.priority
             THEN keys ELSE Append(keys, Head(matches).rule.priority))

\* the matches of one priority, in match order
PriorityGroup(matches, priority) ==
    SelectSeq(matches, LAMBDA m : m.rule.priority = priority)

\* keeps the groups of one match too
ConflictGroupsAll(matches) ==
    LET keys == PriorityKeys(matches, <<>>)
    IN  [j \in 1..Len(keys) |-> PriorityGroup(matches, keys[j])]

ConflictGroups(matches) ==
    LET keys == PriorityKeys(matches, <<>>)
        groups == [j \in 1..Len(keys) |-> PriorityGroup(matches, keys[j])]
    IN  SelectSeq(groups, LAMBDA g : Len(g) > 1)

\* the conflict groups of the matches, none for fewer than two matches
ConflictsAmong(matches) ==
    IF matches.threw THEN Throw
    ELSE IF Len(matches.val) <= 1 THEN Return(<<>>)
    ELSE Return(ConflictGroups(matches.val))

findConflicts(input, rules, context) ==
    ConflictsAmong(findMatchingRules(input, rules, context))

\* a version that stops at the first error
validateRuleFirstError(rule) ==
    LET e1 == IF rule.id = Absent \/ rule.id = <<>> \/ Trim(rule.id) = <<>>
              THEN <<"Rule must have a valid ID">> ELSE <<>>
        e2 == IF rule.name = Absent \/ rule.name = <<>> \/ Trim(rule.name) = <<>>
              THEN <<"Rule must have a name">> ELSE <<>>
        e3 == IF rule.priority < 0 THEN <<"Priority must be non-negative">> ELSE <<>>
        e4 == IF rule.direction \in {"folder-to-tag", "bidirectional"}
                 /\ NoPattern(rule.folderPattern)
              THEN <<"Folder-to-tag rules must have a folder pattern">> ELSE <<>>
        e5 == IF rule.direction \in {"tag-to-folder", "bidirectional"}
                 /\ NoPattern(rule.tagPattern)
              THEN <<"Tag-to-folder rules must have a tag pattern">> ELSE <<>>
        e6 == IF ~NoPattern(rule.folderPattern) /\ ~patternToRegex(rule.folderPattern).ok
              THEN <<"Invalid folder pattern">> ELSE <<>>
        e7 == IF ~NoPattern(rule.tagPattern) /\ ~patternToRegex(rule.tagPattern).ok
              THEN <<"Invalid tag pattern">> ELSE <<>>
        all == e1 \o e2 \o e3 \o e4 \o e5 \o e6 \o e7
        errors == IF all = <<>> THEN <<>> ELSE <<Head(all)>>
    IN  [valid |-> Len(errors) = 0, errors |-> errors]

validateRule(rule) ==
    LET e1 == IF rule.id = Absent \/ rule.id = <<>> \/ Trim(rule.id) = <<>>
              THEN <<"Rule must have a valid ID">> ELSE <<>>
        e2 == IF rule.name = Absent \/ rule.name = <<>> \/ Trim(rule.name) = <<>>
              THEN <<"Rule must have a name">> ELSE <<>>
        e3 == IF rule.priority < 0 THEN <<"Priority must be non-negative">> ELSE <<>>
        e4 == IF rule.direction \in {"folder-to-tag", "bidirectional"}
                 /\ NoPattern(rule.folderPattern)
              THEN <<"Folder-to-tag rules must have a folder pattern">> ELSE <<>>
        e5 == IF rule.direction \in {"tag-to-folder", "bidirectional"}
                 /\ NoPattern(rule.tagPattern)
              THEN <<"Tag-to-folder rules must have a tag pattern">> ELSE <<>>
        e6 == IF ~NoPattern(rule.folderPattern) /\ ~patternToRegex(rule.folderPattern).ok
              THEN <<"Invalid folder pattern">> ELSE <<>>
        e7 == IF ~NoPattern(rule.tagPattern) /\ ~patternToRegex(rule.tagPattern).ok
              THEN <<"Invalid tag pattern">> ELSE <<>>
        errors == e1 \o e2 \o e3 \o e4 \o e5 \o e6 \o e7
    IN  [valid |-> Len(errors) = 0, errors |-> errors]

\* ------------------------------------------------------------------------
\* caseTransformers
\* ------------------------------------------------------------------------

\* s.replace(/([A-Z])/g, sep + '$1')
InsertBeforeUpper(s, sep) ==
    Flatten([j \in 1..Len(s) |->
                IF s[j] \in UpperChars THEN <<sep, s[j]>> ELSE <<s[j]>>])

\* s.replace(/^c/, '')
DropLeading(s, c) == IF s # <<>> /\ Head(s) = c THEN Tail(s) ELSE s

toSnakeCase(input) ==
    LET r1 == InsertBeforeUpper(input, "_")
        r2 == CollapseRuns(r1, WhiteChars \cup {"-"}, <<"_">>)
        r3 == toLowerCase(r2)
        r4 == DropLeading(r3, "_")
    IN  CollapseRuns(r4, {"_"}, <<"_">>)

\* s.replace(/\b\w/g, c => c.toUpperCase())
CapitalizeWords(s) ==
    [j \in 1..Len(s) |->
        IF s[j] \in WordChars /\ (j = 1 \/ s[j - 1] \notin WordChars)
        THEN ToUpperChar(s[j]) ELSE s[j]]

\* a conversion that capitalises the first word only
toTitleCaseFirstOnly(input) ==
    LET r1 == CollapseRuns(input, {"_", "-"}, <<" ">>)
        r2 == [j \in 1..Len(r1) |->
                  IF \A k \in 1..(j - 1) : r1[k] \notin WordChars
                  THEN ToUpperChar(r1[j]) ELSE r1[j]]
        r3 == CollapseRuns(r2, WhiteChars, <<" ">>)
    IN  Trim(r3)

\* a conversion that leaves the underscores and hyphens in place
toTitleCaseKeepSeparators(input) ==
    Trim(CollapseRuns(CapitalizeWords(input), WhiteChars, <<" ">>))

toTitleCase(input) ==
    LET r1 == CollapseRuns(input, {"_", "-"}, <<" ">>)
        r2 == CapitalizeWords(r1)
        r3 == CollapseRuns(r2, WhiteChars, <<" ">>)
    IN  Trim(r3)

toKebabCase(input) ==
    LET r1 == InsertBeforeUpper(input, "-")
        r2 == CollapseRuns(r1, WhiteChars \cup {"_"}, <<"-">>)
        r3 == toLowerCase(r2)
        r4 == DropLeading(r3, "-")
    IN  CollapseRuns(r4, {"-"}, <<"-">>)

CaseSeparators == WhiteChars \cup {"_", "-"}

\* s.replace(/[\s_\-]+(.)/g, (_, char) => char.toUpperCase()) from position i:
\* a run of separators and the character after it become that character in
\* upper case; a run that reaches the end of the string gives its last
\* separator to (.)
RECURSIVE JoinWords(_, _)
JoinWords(s, i) ==
    IF i > Len(s) THEN <<>>
    ELSE IF s[i] \notin CaseSeparators THEN <<s[i]>> \o JoinWords(s, i + 1)
    ELSE LET rest == {j \in i..Len(s) : s[j] \notin CaseSeparators}
         IN  IF rest # {}
             THEN LET j == CHOOSE x \in rest : \A y \in rest : x <= y
                  IN  <<ToUpperChar(s[j])>> \o JoinWords(s, j + 1)
             ELSE IF Len(s) - i >= 1 THEN <<s[Len(s)]>>
             ELSE <<s[i]>>

toCamelCase(input) ==
    LET r == JoinWords(input, 1)
    IN  IF r = <<>> THEN r ELSE <<ToLowerChar(Head(r))>> \o Tail(r)

toPascalCase(input) ==
    LET r == JoinWords(input, 1)
    IN  IF r = <<>> THEN r ELSE <<ToUpperChar(Head(r))>> \o Tail(r)

applyCaseTransform(input, transformType) ==
    CASE transformType = "snake_case" -> toSnakeCase(input)
      [] transformType = "Title Case" -> toTitleCase(input)
      [] transformType = "kebab-case" -> toKebabCase(input)
      [] transformType = "camelCase"  -> toCamelCase(input)
      [] transformType = "PascalCase" -> toPascalCase(input)
      [] transformType = "lowercase"  -> toLowerCase(input)
      [] transformType = "UPPERCASE"  -> toUpperCase(input)
      [] OTHER -> input

\* input.split('/'): the segments between the slashes
RECURSIVE SplitSlash(_, _)
SplitSlash(s, seg) ==
    IF s = <<>> THEN <<seg>>
    ELSE IF Head(s) = "/" THEN <<seg>> \o SplitSlash(Tail(s), <<>>)
    ELSE SplitSlash(Tail(s), Append(seg, Head(s)))

\* segments.join('/')
RECURSIVE JoinSlash(_)
JoinSlash(segs) ==
    IF Len(segs) = 1 THEN Head(segs)
    ELSE Head(segs) \o <<"/">> \o JoinSlash(Tail(segs))

applyCaseTransformToPath(input, transformType) ==
    LET segs == SplitSlash(input, <<>>)
    IN  JoinSlash([j \in 1..Len(segs) |-> applyCaseTransform(segs[j], transformType)])

\* ------------------------------------------------------------------------
\* emojiTransformers
\* ------------------------------------------------------------------------

stripEmoji(input) ==
    Trim(CollapseRuns(RemoveChars(input, EmojiChars), WhiteChars, <<" ">>))

\* . : ; , ? ! @ \
InvalidTagChars == {".", ":", ";", ",", "?", "!", "@", "\\"}

stripInvalidTagChars(input) == RemoveChars(input, InvalidTagChars)

applyEmojiHandling(input, handling) ==
    IF handling = "strip" THEN stripEmoji(input) ELSE input

\* ------------------------------------------------------------------------
\* numberTransformers
\* ------------------------------------------------------------------------

\* length of the run of digits s starts with
RECURSIVE LeadingDigits(_)
LeadingDigits(s) ==
    IF s # <<>> /\ Head(s) \in DigitChars THEN 1 + LeadingDigits(Tail(s)) ELSE 0

NoNumberPrefix(input) == [number |-> Absent, name |-> input, fullMatch |-> FALSE]

\* the two patterns without their ^ anchor: the prefix is looked for from the
\* first digit of the string
RECURSIVE extractNumberPrefixUnanchored(_)
extractNumberPrefixUnanchored(input) ==
    LET d    == LeadingDigits(input)
        rest == SubSeq(input, d + 1, Len(input))
        r1   == TrimLeft(rest)
        jd   == d > 0 /\ Len(r1) >= 2 /\ Head(r1) = "-"
        r2   == IF rest # <<>> /\ Head(rest) = "." THEN Tail(rest) ELSE rest
        sn   == d > 0 /\ Len(r2) >= 2 /\ Head(r2) \in WhiteChars
    IN  IF jd THEN [number |-> SubSeq(input, 1, d), name |-> Trim(Tail(r1)),
                    fullMatch |-> TRUE]
        ELSE IF sn THEN [number |-> SubSeq(input, 1, d), name |-> Trim(Tail(r2)),
                         fullMatch |-> TRUE]
        ELSE IF d = 0 /\ input # <<>>
             THEN LET r == extractNumberPrefixUnanchored(Tail(input))
                  IN  IF r.fullMatch THEN r ELSE NoNumberPrefix(input)
        ELSE NoNumberPrefix(input)

extractNumberPrefix(input) ==
    LET d    == LeadingDigits(input)
        rest == SubSeq(input, d + 1, Len(input))
        \* /^(\d+)\s*-\s*(.+)$/
        r1   == TrimLeft(rest)
        jd   == d > 0 /\ Len(r1) >= 2 /\ Head(r1) = "-"
        \* /^(\d+)\.?\s+(.+)$/
        r2   == IF rest # <<>> /\ Head(rest) = "." THEN Tail(rest) ELSE rest
        sn   == d > 0 /\ Len(r2) >= 2 /\ Head(r2) \in WhiteChars
    IN  IF jd THEN [number |-> SubSeq(input, 1, d), name |-> Trim(Tail(r1)),
                    fullMatch |-> TRUE]
        ELSE IF sn THEN [number |-> SubSeq(input, 1, d), name |-> Trim(Tail(r2)),
                         fullMatch |-> TRUE]
        ELSE NoNumberPrefix(input)

stripNumberPrefix(input) == extractNumberPrefix(input).name

applyNumberHandling(input, handling) ==
    CASE handling = "strip"   -> stripNumberPrefix(input)
      [] handling = "extract" -> extractNumberPrefix(input)
      [] OTHER -> input

\* ------------------------------------------------------------------------
\* pipeline
\* ------------------------------------------------------------------------

\* an undefined field of a TransformConfig
Undefined == "undefined"

\* stages 1 to 3 of applyTransformPipeline, after the first trim
PipelineEmoji(result, config) ==
    IF config.emojiHandling # Undefined
    THEN applyEmojiHandling(result, config.emojiHandling) ELSE result

\* a version whose extract mode leaves the numeral in place
PipelineNumberExtractKept(result, config) ==
    IF config.numberPrefixHandling = "strip" THEN stripNumberPrefix(result)
    ELSE result

PipelineNumber(result, config) ==
    IF config.numberPrefixHandling = "strip" THEN stripNumberPrefix(result)
    ELSE IF config.numberPrefixHandling = "extract"
         THEN LET extracted == applyNumberHandling(result, "extract")
              IN  IF extracted.name # <<>> THEN extracted.name ELSE result
    ELSE result

PipelineCase(result, config) ==
    IF config.caseTransform # Undefined /\ config.caseTransform # "none"
    THEN applyCaseTransformToPath(result, config.caseTransform) ELSE result

\* an undefined customTransforms is the empty list: the code treats both alike
PipelineRegex(result, config) ==
    IF Len(config.customTransforms) > 0
    THEN applyRegexTransforms(result, config.customTransforms)
    ELSE Return(result)

\* a version that never strips
PipelineTagCharsKept(result, options) == result

PipelineTagChars(result, options) ==
    IF options.isTagTransform THEN stripInvalidTagChars(result) ELSE result

\* the end of the try block, or the catch block: result is the value the
\* stages before the custom transforms left, r the completion of that stage
PipelineFinish(input, result, r, options) ==
    IF r.threw
    THEN Return(IF options.preserveOnError THEN input ELSE result)
    ELSE Return(Trim(PipelineTagChars(r.val, options)))

PipelineFromRegex(input, result, config, options) ==
    PipelineFinish(input, result, PipelineRegex(result, config), options)

\* strips the invalid tag characters before the custom transforms run
PipelineStripThenRegex(input, result, config, options) ==
    PipelineFinish(input, result,
        PipelineRegex(PipelineTagChars(result, options), config),
        [options EXCEPT !.isTagTransform = FALSE])

\* a version with stages 4 and 5 exchanged
applyTransformPipelineStripFirst(input, config, options) ==
    PipelineStripThenRegex(input,
        PipelineCase(PipelineNumber(PipelineEmoji(Trim(input), config), config),
                     config),
        config, options)

applyTransformPipeline(input, config, options) ==
    PipelineFromRegex(input,
        PipelineCase(PipelineNumber(PipelineEmoji(Trim(input), config), config),
                     config),
        config, options)

folderToTag(folderPath, config) ==
    applyTransformPipeline(folderPath, config,
        [isTagTransform |-> TRUE, preserveOnError |-> FALSE])

tagToFolder(tagName, config) ==
    applyTransformPipeline(tagName, config,
        [isTagTransform |-> FALSE, preserveOnError |-> FALSE])

\* `Case transformation to ${caseTransform} may not preserve original casing`
CaseWarning(caseTransform) ==
    CASE caseTransform = "snake_case" ->
           "Case transformation to snake_case may not preserve original casing"
      [] caseTransform = "kebab-case" ->
           "Case transformation to kebab-case may not preserve original casing"
      [] caseTransform = "camelCase" ->
           "Case transformation to camelCase may not preserve original casing"
      [] caseTransform = "PascalCase" ->
           "Case transformation to PascalCase may not preserve original casing"
      [] caseTransform = "lowercase" ->
           "Case transformation to lowercase may not preserve original casing"
      [] caseTransform = "UPPERCASE" ->
           "Case transformation to UPPERCASE may not preserve original casing"

\* the warnings of isTransformReversible, in the order they are pushed
ReversibleWarnings(config) ==
    (IF config.emojiHandling = "strip"
     THEN <<"Emoji stripping is not reversible">> ELSE <<>>)
    \o (IF config.numberPrefixHandling \in {"strip", "extract"}
        THEN <<"Number prefix removal is not reversible">> ELSE <<>>)
    \o (IF config.caseTransform \notin {Undefined, "none", "Title Case"}
        THEN <<CaseWarning(config.caseTransform)>> ELSE <<>>)
    \o (IF Len(config.customTransforms) > 0
        THEN <<"Custom regex transformations may not be reversible">>
        ELSE <<>>)

\* a version that lets emoji stripping pass as reversible
isTransformReversibleEmojiKept(config) ==
    [reversible |-> /\ config.numberPrefixHandling \notin {"strip", "extract"}
                    /\ Len(config.customTransforms) = 0,
     warnings |-> ReversibleWarnings(config)]

\* a version in which the case warning clears reversible too
isTransformReversibleCaseLossy(config) ==
    [reversible |-> ReversibleWarnings(config) = <<>>,
     warnings |-> ReversibleWarnings(config)]

isTransformReversible(config) ==
    [reversible |-> /\ config.emojiHandling # "strip"
                    /\ config.numberPrefixHandling \notin {"strip", "extract"}
                    /\ Len(config.customTransforms) = 0,
     warnings |-> ReversibleWarnings(config)]

\* ------------------------------------------------------------------------
\* State: the rule set the host supplies, the last call into the core and
\* its completion
\* ------------------------------------------------------------------------

VARIABLES rules, call, ret

vars == <<rules, call, ret>>

NoCall == [op |-> "none"]

MappingRule(id, name, enabled, priority, direction, folderPattern, tagPattern) ==
    [id |-> id, name |-> name, enabled |-> enabled, priority |-> priority,
     direction |-> direction, folderPattern |-> folderPattern,
     tagPattern |-> tagPattern]

\* ---- inputs of the matcher

PatAlphabet == {"a", "/", "*", "?"}
InputAlphabet == {"a", "/"}

MatchPatterns == Strings(PatAlphabet, 1, MaxPatLen)
MatchInputs == Strings(InputAlphabet, 0, MaxInputLen)

Contexts ==
    [matchType : {"folder", "tag"},
     direction : Directions \cup {NoDirection},
     includeDisabled : BOOLEAN]

\* one pattern field ranges over every pattern (or is undefined or empty),
\* the other one is undefined or the literal "a"
OptionalPatterns == MatchPatterns \cup {Absent, <<>>}
OtherPatterns == {Absent, <<"a">>}
PatternPairs ==
    (OptionalPatterns \X OtherPatterns) \cup (OtherPatterns \X OptionalPatterns)

EvalRules ==
    {MappingRule(<<"1">>, <<"n">>, e, 0, d, pp[1], pp[2]) :
        e \in BOOLEAN, d \in Directions, pp \in PatternPairs}

\* ---- rule sets: enabled bidirectional rules with a folder pattern; the
\* id of a rule is its position
ListPatterns == {<<"a">>, <<"a", "*">>, <<"*">>}
ListContexts ==
    {[matchType |-> "folder", direction |-> NoDirection, includeDisabled |-> FALSE]}

RuleId(i) == <<"r", i>>

RuleSets ==
    UNION {
        {[i \in 1..n |->
            MappingRule(RuleId(i), <<"n">>, TRUE, f[i][1], "bidirectional",
                        f[i][2], Absent)] :
            f \in [1..n -> (0..MaxPriority) \X ListPatterns]} :
        n \in 0..MaxRules}

\* ---- rules given to the validator
ValidateAlphabet == {"a", "*", "("}
ValidatePatterns == Strings(ValidateAlphabet, 0, MaxPatLen) \cup {Absent}
ValidateNames == {Absent, <<>>, <<" ">>, <<"n">>}

ValidateRules ==
    {MappingRule(id, name, TRUE, pr, d, fp, tp) :
        id \in ValidateNames, name \in ValidateNames, pr \in {-1, 0},
        d \in Directions, fp \in ValidatePatterns, tp \in ValidatePatterns}

\* ---- inputs of the pipeline
PipeAlphabet == {" ", "E", "1", "a", "A", ":"}

\* folder names of the shapes the repository's tests use
PipeSamples ==
    { <<"E", " ", "1", " ", "-", " ", "A", "b", " ", "B", "a", "!">>,
      <<" ", "1", " ", "-", " ", "a", " ">>,
      <<"A", "b", "/", "B", " ", "a">>,
      <<"a", ":", "b", ".", "a">>,
      <<"E", "1", "-", "a">>,
      <<"1", ".", " ", "A", "_", "b">> }

PipeInputs == Strings(PipeAlphabet, 0, MaxPipeLen) \cup PipeSamples

RegexTransform(pattern, replacement, flags) ==
    [pattern |-> pattern, replacement |-> replacement, flags |-> flags]

\* a -> ":", ":" -> "b", and a pattern that does not compile
TransformA == RegexTransform(<<"a">>, <<":">>, Absent)
TransformColon == RegexTransform(<<":">>, <<"b">>, Absent)
TransformInvalid == RegexTransform(<<"[", "a", "(">>, <<"b">>, Absent)

TransformLists ==
    { <<>>, <<TransformA>>, <<TransformInvalid>>,
      <<TransformA, TransformColon>>, <<TransformColon, TransformA>>,
      <<TransformInvalid, TransformA>> }

CaseTransforms ==
    {"none", "snake_case", "kebab-case", "camelCase", "PascalCase",
     "Title Case", "lowercase", "UPPERCASE"}

Configs ==
    [emojiHandling : {Undefined, "keep", "strip"},
     numberPrefixHandling : {Undefined, "keep", "strip", "extract"},
     caseTransform : CaseTransforms \cup {Undefined},
     customTransforms : TransformLists]

PipelineOptions == [isTagTransform : BOOLEAN, preserveOnError : BOOLEAN]

\* ---- inputs of applyRegexTransform(s)
Transforms == {TransformA, TransformColon, TransformInvalid}

TransformSeqs ==
    UNION {[1..n -> Transforms] : n \in 0..MaxTransforms}

\* ---- globs and the paths tested against them
GlobAlphabet == {"a", "/", "*"}

Globs == Strings(GlobAlphabet, 0, MaxGlobLen)

PathAlphabet == {"a", "/"}

Paths == Strings(PathAlphabet, 0, MaxPathLen)

\* ---- inputs of the pipeline applied to its own output: configs with
\* emoji handling and a case transform only
TwiceAlphabet == {"_", "a", "A", ":", "E"}

TwiceInputs == Strings(TwiceAlphabet, 0, MaxTwiceLen)

TwiceConfigs ==
    [emojiHandling : {Undefined, "keep", "strip"},
     numberPrefixHandling : {Undefined, "keep"},
     caseTransform : CaseTransforms \cup {Undefined},
     customTransforms : {<<>>}]

\* ---- inputs of the pipeline applied to two inputs under one config
PairInputs == Strings({" ", "a", "A", "E"}, 0, MaxPipeLen)

PairConfigs ==
    [emojiHandling : {Undefined, "strip"},
     numberPrefixHandling : {Undefined, "strip"},
     caseTransform : {Undefined, "none", "lowercase", "Title Case"},
     customTransforms : {<<>>}]

\* options = {}
DefaultOptions == [isTagTransform |-> FALSE, preserveOnError |-> FALSE]

\* ---- inputs of the case transformers
CaseAlphabet == {" ", "_", "-", "a", "A"}

CaseInputs == Strings(CaseAlphabet, 0, MaxCaseLen)

\* ---- inputs of the number prefix functions
NumAlphabet == {"1", " ", "-", ".", "a"}

NumInputs == Strings(NumAlphabet, 0, MaxNumLen)

\* ------------------------------------------------------------------------
\* Calls into the core, one at a time: the host calls, then takes the
\* result.  None of them changes the rule set.
\* ------------------------------------------------------------------------

Idle == call = NoCall

\* the host chooses the arguments of a call only when no call is under way
WhenIdle(S) == IF Idle THEN S ELSE {}

\* the host takes the result of the last call
TakeResult ==
    /\ ~Idle
    /\ call' = NoCall
    /\ ret' = Return(Null)
    /\ UNCHANGED rules

EvaluateRule(i, input, context) ==
    /\ Idle
    /\ call' = [op |-> "evaluateRule", input |-> input, context |-> context,
                rule |-> rules[i]]
    /\ ret' = evaluateRule(input, rules[i], context)
    /\ UNCHANGED rules

FindMatchingRules(input, context) ==
    /\ Idle
    /\ call' = [op |-> "findMatchingRules", input |-> input, context |-> context]
    /\ ret' = findMatchingRules(input, rules, context)
    /\ UNCHANGED rules

FindBestMatch(input, context) ==
    /\ Idle
    /\ call' = [op |-> "findBestMatch", input |-> input, context |-> context]
    /\ ret' = findBestMatch(input, rules, context)
    /\ rules' = rulesAfterFindBestMatch(rules,
                     findMatchingRules(input, rules, context))

\* the same call made again, with the same input, rules and context; first
\* is the result of the call before
FindBestMatchAgain ==
    /\ ~Idle
    /\ call.op = "findBestMatch"
    /\ call' = [op |-> "findBestMatchAgain", input |-> call.input,
                context |-> call.context, first |-> ret]
    /\ ret' = findBestMatch(call.input, rules, call.context)
    /\ rules' = rulesAfterFindBestMatch(rules,
                     findMatchingRules(call.input, rules, call.context))

FindConflicts(input, context) ==
    /\ Idle
    /\ call' = [op |-> "findConflicts", input |-> input, context |-> context]
    /\ ret' = findConflicts(input, rules, context)
    /\ UNCHANGED rules

ValidateRule(rule) ==
    /\ Idle
    /\ call' = [op |-> "validateRule", rule |-> rule]
    /\ ret' = Return(validateRule(rule))
    /\ UNCHANGED rules

ApplyTransformPipeline(input, config, options) ==
    /\ Idle
    /\ call' = [op |-> "applyTransformPipeline", input |-> input,
                config |-> config, options |-> options]
    /\ ret' = applyTransformPipeline(input, config, options)
    /\ UNCHANGED rules

\* applyTransformPipeline called on the result of the call before, with the
\* same config and options
ApplyTransformPipelineAgain ==
    /\ ~Idle
    /\ call.op = "applyTransformPipeline"
    /\ ~ret.threw
    /\ call' = [op |-> "applyTransformPipelineAgain", input |-> ret.val,
                config |-> call.config, options |-> call.options]
    /\ ret' = applyTransformPipeline(ret.val, call.config, call.options)
    /\ UNCHANGED rules

\* applyTransformPipeline called on another input with the same config and
\* options; first keeps the input and the result of the call before
ApplyTransformPipelineOther(other) ==
    /\ ~Idle
    /\ call.op = "applyTransformPipeline"
    /\ call' = [op |-> "applyTransformPipelineOther", input |-> other,
                config |-> call.config, options |-> call.options,
                first |-> [input |-> call.input, ret |-> ret]]
    /\ ret' = applyTransformPipeline(other, call.config, call.options)
    /\ UNCHANGED rules

FolderToTag(folderPath, config) ==
    /\ Idle
    /\ call' = [op |-> "folderToTag", input |-> folderPath, config |-> config]
    /\ ret' = folderToTag(folderPath, config)
    /\ UNCHANGED rules

TagToFolder(tagName, config) ==
    /\ Idle
    /\ call' = [op |-> "tagToFolder", input |-> tagName, config |-> config]
    /\ ret' = tagToFolder(tagName, config)
    /\ UNCHANGED rules

ApplyRegexTransform(input, transform) ==
    /\ Idle
    /\ call' = [op |-> "applyRegexTransform", input |-> input,
                transform |-> transform]
    /\ ret' = applyRegexTransform(input, transform)
    /\ UNCHANGED rules

ApplyRegexTransforms(input, transforms) ==
    /\ Idle
    /\ call' = [op |-> "applyRegexTransforms", input |-> input,
                transforms |-> transforms]
    /\ ret' = applyRegexTransforms(input, transforms)
    /\ UNCHANGED rules

ToSnakeCase(input) ==
    /\ Idle
    /\ call' = [op |-> "toSnakeCase", input |-> input]
    /\ ret' = Return(toSnakeCase(input))
    /\ UNCHANGED rules

ToKebabCase(input) ==
    /\ Idle
    /\ call' = [op |-> "toKebabCase", input |-> input]
    /\ ret' = Return(toKebabCase(input))
    /\ UNCHANGED rules

ToTitleCase(input) ==
    /\ Idle
    /\ call' = [op |-> "toTitleCase", input |-> input]
    /\ ret' = Return(toTitleCase(input))
    /\ UNCHANGED rules

\* result = toTitleCase(toSnakeCase(original)), the first round trip
RoundTrip(original) ==
    /\ Idle
    /\ call' = [op |-> "roundTrip", input |-> original, trips |-> 1]
    /\ ret' = Return(toTitleCase(toSnakeCase(original)))
    /\ UNCHANGED rules

\* result = toTitleCase(toSnakeCase(result)), one more round trip
RoundTripAgain ==
    /\ ~Idle
    /\ call.op = "roundTrip"
    /\ call.trips < MaxRoundTrips
    /\ call' = [call EXCEPT !.trips = @ + 1]
    /\ ret' = Return(toTitleCase(toSnakeCase(ret.val)))
    /\ UNCHANGED rules

GlobToRegex(glob) ==
    /\ Idle
    /\ call' = [op |-> "globToRegex", glob |-> glob]
    /\ ret' = Return(globToRegex(glob))
    /\ UNCHANGED rules

\* new RegExp(globToRegex(glob)).test(input)
TestGlob(glob, input) ==
    /\ Idle
    /\ call' = [op |-> "testGlob", glob |-> glob, input |-> input]
    /\ ret' = TestUncaught(RegExpNew(globToRegex(glob), Absent), input)
    /\ UNCHANGED rules

ExtractNumberPrefix(input) ==
    /\ Idle
    /\ call' = [op |-> "extractNumberPrefix", input |-> input]
    /\ ret' = Return(extractNumberPrefix(input))
    /\ UNCHANGED rules

StripNumberPrefix(input) ==
    /\ Idle
    /\ call' = [op |-> "stripNumberPrefix", input |-> input]
    /\ ret' = Return(stripNumberPrefix(input))
    /\ UNCHANGED rules

IsTransformReversible(config) ==
    /\ Idle
    /\ call' = [op |-> "isTransformReversible", config |-> config]
    /\ ret' = Return(isTransformReversible(config))
    /\ UNCHANGED rules

\* ------------------------------------------------------------------------
\* The settings tab and the rule editor.  Here rules is
\* plugin.settings.rules in storage order; positions count from 1.
\* ------------------------------------------------------------------------

\* a TransformConfig without fields: {}
NoTransforms ==
    [emojiHandling |-> Undefined, numberPrefixHandling |-> Undefined,
     caseTransform |-> Undefined, customTransforms |-> <<>>]

\* a folderTransforms or tagTransforms field that is undefined
NoConfig == [undefined |-> TRUE]

\* the fields of a MappingRule the matcher does not read
RuleDetails(folderEntryPoint, tagEntryPoint, folderTransforms, tagTransforms, createFolders, addTags) ==
    [folderEntryPoint |-> folderEntryPoint, tagEntryPoint |-> tagEntryPoint,
     folderTransforms |-> folderTransforms, tagTransforms |-> tagTransforms,
     options |-> [createFolders |-> createFolders, addTags |-> addTags]]

DefaultPriority == 100

\* the id is `rule-${Date.now()}`: one no other rule has
createDefaultRule(id) ==
    MappingRule(id, <<"N", "e", "w", " ", "r", "u", "l", "e">>, TRUE,
                DefaultPriority, "bidirectional", <<>>, <<>>)
    @@ RuleDetails(Absent, Absent, NoTransforms, NoTransforms, TRUE, TRUE)

\* [...settings.rules].sort((a, b) => a.priority - b.priority): the rows
\* of the settings tab from top to bottom; the sort is stable
RECURSIVE DisplayInsert(_, _)
DisplayInsert(sorted, rule) ==
    IF sorted = <<>> THEN <<rule>>
    ELSE IF rule.priority - Head(sorted).priority < 0 THEN <<rule>> \o sorted
    ELSE <<Head(sorted)>> \o DisplayInsert(Tail(sorted), rule)

RECURSIVE DisplaySort(_, _)
DisplaySort(rs, sorted) ==
    IF rs = <<>> THEN sorted
    ELSE DisplaySort(Tail(rs), DisplayInsert(sorted, Head(rs)))

sortedRules(rs) == DisplaySort(rs, <<>>)

\* rs.splice(fromIndex, 1) and rs.splice(toIndex, 0, movedRule)
SpliceOut(rs, fromIndex) ==
    SubSeq(rs, 1, fromIndex - 1) \o SubSeq(rs, fromIndex + 1, Len(rs))

SpliceIn(rs, toIndex, movedRule) ==
    SubSeq(rs, 1, toIndex - 1) \o <<movedRule>> \o SubSeq(rs, toIndex, Len(rs))

PriorityStep == 10

\* r.priority = (i + 1) * 10 for the i counted from 0
Renumbered(rs) ==
    [i \in 1..Len(rs) |-> [rs[i] EXCEPT !.priority = i * PriorityStep]]

\* the drop handler: fromIndex and toIndex are positions of rows, applied
\* to a copy of settings.rules
dropRules(rs, fromIndex, toIndex) ==
    Renumbered(SpliceIn(SpliceOut(rs, fromIndex), toIndex, rs[fromIndex]))

\* settings.rules.findIndex(r => r.id === id), 0 when there is none
findIndex(rs, id) ==
    IF \E i \in 1..Len(rs) : rs[i].id = id
    THEN CHOOSE i \in 1..Len(rs) :
            rs[i].id = id /\ \A j \in 1..(i - 1) : rs[j].id # id
    ELSE 0

\* settings.rules.filter(r => r.id !== id)
RECURSIVE filterRules(_, _)
filterRules(rs, id) ==
    IF rs = <<>> THEN <<>>
    ELSE (IF Head(rs).id # id THEN <<Head(rs)>> ELSE <<>>)
         \o filterRules(Tail(rs), id)

\* ---- what the user types into the editor
PriorityInputs == {5}
EditorPatterns == {<<>>, <<"a">>}
EditorTagPatterns == {<<"a">>}

\* `rule-${Date.now()}` at the i-th distinct moment
RuleDigits == <<"1", "2", "3", "4", "5", "6", "7", "8", "9">>
TimedRuleId(i) == <<"r", RuleDigits[i]>>

\* the least i for which no rule has the id TimedRuleId(i)
NewRuleId(rs) ==
    TimedRuleId(CHOOSE i \in 1..(Len(rs) + 1) :
        /\ \A k \in 1..Len(rs) : rs[k].id # TimedRuleId(i)
        /\ \A j \in 1..(i - 1) : \E k \in 1..Len(rs) : rs[k].id = TimedRuleId(j))

\* the editor as the constructor leaves it: rule is this.rule, opened its
\* value at that moment, rejected whether the last Save was refused
RuleEditor(isNew, rule) ==
    [op |-> "ruleEditor", isNew |-> isNew, rule |-> rule, opened |-> rule,
     rejected |-> FALSE]

\* "Add rule": openRuleEditor(null)
OpenNewRule ==
    /\ Idle
    /\ Len(rules) < MaxSettingsRules
    /\ call' = RuleEditor(TRUE, createDefaultRule(NewRuleId(rules)))
    /\ ret' = Return(Null)
    /\ UNCHANGED rules

\* a click on the row at position row: openRuleEditor(rule), and
\* this.rule = rule, the object settings.rules holds
OpenRule(row) ==
    /\ Idle
    /\ call' = RuleEditor(FALSE, sortedRules(rules)[row])
    /\ ret' = Return(Null)
    /\ UNCHANGED rules

\* an onChange handler has assigned to a field of this.rule: edited is the
\* rule after it.  The rule of an editor opened on a row is the element of
\* settings.rules with that id.
EditorChange(edited) ==
    /\ call' = [call EXCEPT !.rule = edited, !.rejected = FALSE]
    /\ rules' = IF call.isNew THEN rules
                ELSE [rules EXCEPT ![findIndex(rules, call.rule.id)] = edited]
    /\ UNCHANGED ret

\* the Priority field; the inputs are numerals that parse and are >= 0
ChangePriority(num) ==
    /\ call.op = "ruleEditor"
    /\ EditorChange([call.rule EXCEPT !.priority = num])

ChangeFolderPattern(value) ==
    /\ call.op = "ruleEditor"
    /\ EditorChange([call.rule EXCEPT !.folderPattern = value])

ChangeTagPattern(value) ==
    /\ call.op = "ruleEditor"
    /\ EditorChange([call.rule EXCEPT !.tagPattern = value])

\* the editor after this.close(): by is the button pressed
EditorClosed(by) ==
    [op |-> "ruleEditorClosed", by |-> by, isNew |-> call.isNew,
     rule |-> call.rule, opened |-> call.opened]

\* the callback of openRuleEditor with updatedRule = this.rule
onSaveRule(rs, isNew, updatedRule) ==
    IF isNew THEN Append(rs, updatedRule)
    ELSE IF findIndex(rs, updatedRule.id) # 0
         THEN [rs EXCEPT ![findIndex(rs, updatedRule.id)] = updatedRule]
    ELSE rs

\* the Save button
SaveRule ==
    /\ call.op = "ruleEditor"
    /\ IF ~validateRule(call.rule).valid
       THEN /\ call' = [call EXCEPT !.rejected = TRUE]
            /\ UNCHANGED rules
       ELSE /\ call' = EditorClosed("save")
            /\ rules' = onSaveRule(rules, call.isNew, call.rule)
    /\ ret' = Return(validateRule(call.rule))

\* the Cancel button: this.close()
CancelRule ==
    /\ call.op = "ruleEditor"
    /\ call' = EditorClosed("cancel")
    /\ UNCHANGED <<rules, ret>>

\* the Delete button, which only an editor opened on a row has
DeleteRule ==
    /\ call.op = "ruleEditor"
    /\ ~call.isNew
    /\ call' = EditorClosed("delete")
    /\ rules' = filterRules(rules, call.rule.id)
    /\ UNCHANGED ret

\* the row at fromIndex is dropped on the row at toIndex; displayed is the
\* list of rows at that moment
DropRule(fromIndex, toIndex) ==
    /\ Idle
    /\ fromIndex # toIndex
    /\ call' = [op |-> "drop", fromIndex |-> fromIndex, toIndex |-> toIndex,
                displayed |-> sortedRules(rules)]
    /\ rules' = dropRules(rules, fromIndex, toIndex)
    /\ ret' = Return(Null)

\* the settings tab is shown again, or the sync has returned
HostTakeResult ==
    /\ call.op # "ruleEditor"
    /\ TakeResult

\* ------------------------------------------------------------------------
\* The two syncs.  A string | null is <<>> for null and <<s>> for s.
\* ------------------------------------------------------------------------

NotFound == <<>>
Found(s) == <<s>>

\* !value of an optional string
Falsy(value) == value = Absent \/ value = <<>>

\* s.match(regex)[0] for an expression without the g flag, given the
\* positions where it matches
MatchAt(re, s, starts) ==
    IF starts = {} THEN NotFound
    ELSE LET st == CHOOSE x \in starts : \A y \in starts : x <= y
         IN  Found(SubSeq(s, st, Head(ReEndsSeq(re.items, s, st, re.icase)) - 1))

RegExpMatch(re, s) ==
    MatchAt(re, s, {st \in 1..(Len(s) + 1) :
                       ReEndsSeq(re.items, s, st, re.icase) # <<>>})

\* tag.startsWith('#') ? tag : `#${tag}`, and the slice(1) that undoes it
WithHash(tag) ==
    IF tag # <<>> /\ Head(tag) = "#" THEN tag ELSE <<"#">> \o tag

WithoutHash(tag) ==
    IF tag # <<>> /\ Head(tag) = "#" THEN Tail(tag) ELSE tag

\* path.replace(regex, '') once new RegExp has completed
ReplacedOrThrow(re, path) ==
    IF ~re.ok THEN Throw ELSE Return(RegExpReplace(re, path, <<>>))

\* path.replace(new RegExp(`^${entryPoint}/?`), '')
RemoveEntryPoint(path, entryPoint) ==
    ReplacedOrThrow(
        RegExpNew(<<"^">> \o entryPoint \o <<"/", "?">>, Absent), path)

\* entryPoint ? (transformed ? `${entryPoint}/${transformed}` : entryPoint)
\*            : transformed
JoinEntryPoint(entryPoint, transformed) ==
    IF Falsy(entryPoint) THEN transformed
    ELSE IF transformed # <<>> THEN entryPoint \o <<"/">> \o transformed
    ELSE entryPoint

\* transformFolderToTag from `if (rule.tagTransforms)` on; path is the
\* completion of the entry point removal, and the catch block returns null
TagOfPath(path, rule) ==
    IF path.threw \/ rule.tagTransforms = NoConfig THEN NotFound
    ELSE Found(WithHash(JoinEntryPoint(rule.tagEntryPoint,
             applyTransformPipeline(path.val, rule.tagTransforms,
                 [isTagTransform |-> TRUE, preserveOnError |-> FALSE]).val)))

TagOfMatch(match, rule) ==
    IF match = NotFound THEN NotFound
    ELSE TagOfPath(IF Falsy(rule.folderEntryPoint) THEN Return(match[1])
                   ELSE RemoveEntryPoint(match[1], rule.folderEntryPoint),
                   rule)

TagOfPattern(pattern, folderPath, rule) ==
    IF ~pattern.ok THEN NotFound
    ELSE TagOfMatch(RegExpMatch(pattern, folderPath), rule)

transformFolderToTag(folderPath, rule) ==
    TagOfPattern(
        RegExpNew(IF Falsy(rule.folderPattern) THEN <<".", "*">>
                  ELSE rule.folderPattern, Absent),
        folderPath, rule)

\* what a sync leaves: its SyncResult, the rule it took from
\* matchingRules[0] (as the log entries name it), the tags of the file,
\* the folder of the file and the folders it created
SyncOutcome(success, message, rule, tags, folder, created) ==
    [success |-> success, message |-> message, rule |-> rule, tags |-> tags,
     folder |-> folder, created |-> created]

FolderToTagContext ==
    [matchType |-> "folder", direction |-> "folder-to-tag",
     includeDisabled |-> FALSE]

\* FolderToTagSync.syncFile once the tag is known: currentTags are the tags
\* extractTags reads from the file, and vault.modify writes newTags
SyncTag(tag, rule, file) ==
    IF tag = NotFound
    THEN SyncOutcome(FALSE, "Transformation failed", Found(rule),
                     file.tags, file.folder, {})
    ELSE IF \E i \in DOMAIN file.tags : file.tags[i] = tag[1]
    THEN SyncOutcome(TRUE, "Tag already exists", Found(rule),
                     file.tags, file.folder, {})
    ELSE SyncOutcome(TRUE, "Tag added successfully", Found(rule),
                     Append(file.tags, tag[1]), file.folder, {})

SyncRule(rule, file) ==
    IF rule.direction = "tag-to-folder"
    THEN SyncOutcome(TRUE, "Rule only supports tag-to-folder", Found(rule),
                     file.tags, file.folder, {})
    ELSE SyncTag(transformFolderToTag(file.folder, rule), rule, file)

SyncMatches(matchingRules, file) ==
    IF matchingRules.threw
    THEN SyncOutcome(FALSE, "Sync failed", NotFound, file.tags, file.folder, {})
    ELSE IF Len(matchingRules.val) = 0
    THEN SyncOutcome(TRUE, "No matching rules", NotFound,
                     file.tags, file.folder, {})
    ELSE SyncRule(matchingRules.val[1].rule, file)

\* FolderToTagSync.syncFile
folderToTagSyncFile(file, rs) ==
    SyncMatches(findMatchingRules(file.folder, rs, FolderToTagContext), file)

TagToFolderContext ==
    [matchType |-> "tag", direction |-> "tag-to-folder",
     includeDisabled |-> FALSE]

\* transformTagToFolder from `if (rule.folderTransforms)` on; tagContent is
\* the completion of the entry point removal
FolderOfContent(tagContent, rule) ==
    IF tagContent.threw \/ rule.folderTransforms = NoConfig THEN NotFound
    ELSE Found(JoinEntryPoint(rule.folderEntryPoint,
             applyTransformPipeline(tagContent.val, rule.folderTransforms,
                 [isTagTransform |-> FALSE, preserveOnError |-> FALSE]).val))

transformTagToFolder(tag, rule) ==
    FolderOfContent(
        IF Falsy(rule.tagEntryPoint) THEN Return(WithoutHash(tag))
        ELSE RemoveEntryPoint(WithoutHash(tag), WithoutHash(rule.tagEntryPoint)),
        rule)

RECURSIVE determineTargetFolder(_, _)

\* `if (folderPath) return folderPath`, else the next tag
TargetOfFolder(folderPath, rule, tags, rs) ==
    IF folderPath # NotFound /\ folderPath[1] # <<>>
    THEN Return([folder |-> folderPath[1], rule |-> rule])
    ELSE determineTargetFolder(Tail(tags), rs)

TargetOfRule(rule, tags, rs) ==
    IF rule.direction = "folder-to-tag"
    THEN determineTargetFolder(Tail(tags), rs)
    ELSE TargetOfFolder(transformTagToFolder(Head(tags), rule), rule, tags, rs)

TargetOfMatches(matchingRules, tags, rs) ==
    IF matchingRules.threw THEN Throw
    ELSE IF Len(matchingRules.val) = 0
    THEN determineTargetFolder(Tail(tags), rs)
    ELSE TargetOfRule(matchingRules.val[1].rule, tags, rs)

\* the target folder and the rule that gave it, null when no tag gives one
determineTargetFolder(tags, rs) ==
    IF tags = <<>> THEN Return(Null)
    ELSE TargetOfMatches(
             findMatchingRules(WithoutHash(Head(tags)), rs, TagToFolderContext),
             tags, rs)

\* vault.createFolder when the target folder is not in the vault
CreatedFolders(targetFolder, vault) ==
    IF targetFolder \notin vault.folders THEN {targetFolder} ELSE {}

\* moveFileToFolder: vault.folders and vault.files are the paths the
\* vault holds
moveFileToFolder(target, file, vault) ==
    IF (target.folder \o <<"/">> \o file.name) \in vault.files
    THEN SyncOutcome(FALSE, "File already exists at target",
                     Found(target.rule), file.tags, file.folder,
                     CreatedFolders(target.folder, vault))
    ELSE SyncOutcome(TRUE, "File moved successfully",
                     Found(target.rule), file.tags, target.folder,
                     CreatedFolders(target.folder, vault))

SyncTarget(target, file, vault) ==
    IF target.threw
    THEN SyncOutcome(FALSE, "Sync failed", NotFound, file.tags, file.folder, {})
    ELSE IF target.val = Null
    THEN SyncOutcome(TRUE, "No matching rules", NotFound,
                     file.tags, file.folder, {})
    ELSE IF file.folder = target.val.folder
    THEN SyncOutcome(TRUE, "Already in target folder", Found(target.val.rule),
                     file.tags, file.folder, {})
    ELSE moveFileToFolder(target.val, file, vault)

\* TagToFolderSync.syncFile; file.tags are the tags of the metadata cache
\* with their # prefix
tagToFolderSyncFile(file, vault, rs) ==
    IF Len(file.tags) = 0
    THEN SyncOutcome(TRUE, "No tags found", NotFound, file.tags, file.folder, {})
    ELSE SyncTarget(determineTargetFolder(file.tags, rs), file, vault)

\* ---- the "Sync folder to tags" and "Sync tags to folder" commands, with
\* debug logging off

SyncFolderToTags(file) ==
    /\ Idle
    /\ call' = [op |-> "syncFolderToTags", file |-> file]
    /\ ret' = Return(folderToTagSyncFile(file, rules))
    /\ UNCHANGED rules

SyncTagsToFolder(file, vault) ==
    /\ Idle
    /\ call' = [op |-> "syncTagsToFolder", file |-> file, vault |-> vault]
    /\ ret' = Return(tagToFolderSyncFile(file, vault, rules))
    /\ UNCHANGED rules

\* ---- the files and vaults of the settings runs
File(folder, name, tags) == [folder |-> folder, name |-> name, tags |-> tags]

SettingsFiles == {File(<<"a">>, <<"f">>, <<>>), File(<<>>, <<"f">>, << <<"#", "a">> >>)}
SettingsVaults == {[folders |-> {}, files |-> {}]}


\* ---- the "Test and preview" section of the editor.  onOpen has given
\* this.rule both transform configs when it lacked one; the rules of these
\* runs have both.

\* the Test folder path field: the text the result element is set to
TestFolderPath(value) ==
    /\ call.op = "ruleEditor"
    /\ value # <<>>
    /\ call.rule.folderTransforms # NoConfig
    /\ ret' = Return([test |-> "folder", value |-> value,
                      result |-> folderToTag(value, call.rule.folderTransforms).val])
    /\ UNCHANGED <<rules, call>>

\* the Test tag field
TestTag(value) ==
    /\ call.op = "ruleEditor"
    /\ value # <<>>
    /\ call.rule.tagTransforms # NoConfig
    /\ ret' = Return([test |-> "tag", value |-> value,
                      result |-> tagToFolder(value, call.rule.tagTransforms).val])
    /\ UNCHANGED <<rules, call>>

\* ---- one rule as the editor or an import leaves it, and the files and
\* vaults the syncs run on
CaseConfig(caseTransform) == [NoTransforms EXCEPT !.caseTransform = caseTransform]

SyncConfigs == {NoTransforms, CaseConfig("UPPERCASE")}

SyncRules ==
    {MappingRule(TimedRuleId(1), <<"n">>, TRUE, DefaultPriority,
                 "bidirectional", <<"a">>, <<"a">>)
        @@ RuleDetails(fe, te, ft, tt, cf, at) :
        fe \in {Absent, <<"A">>}, te \in {Absent, <<"b">>},
        ft \in SyncConfigs, tt \in SyncConfigs,
        cf \in BOOLEAN, at \in BOOLEAN}

SyncTags == {<<"#", "a">>, <<"#", "b", "/", "a">>}

SyncFiles ==
    {File(folder, <<"f">>, tags) :
        folder \in {<<>>, <<"a">>},
        tags \in {<<>>} \cup {<<t>> : t \in SyncTags}}

SyncVaults ==
    {[folders |-> {}, files |-> {}],
     [folders |-> {<<"a">>}, files |-> {}],
     [folders |-> {<<"a">>}, files |-> {<<"a", "/", "f">>}]}

TestValues == {<<"a">>, <<"a", "/", "b">>}


\* ------------------------------------------------------------------------
\* The debug logger.  While the plugin is loaded call holds the logger:
\* whether it is enabled, the entries of debug.log, and the calls of log
\* that have not returned, each at the await it has reached.
\* ------------------------------------------------------------------------

\* `[${timestamp}] [${level}] ${message}${dataStr}\n`; time tells two
\* entries with one message apart
LogEntry(message, time) == <<message, time>>

LogMessages ==
    {"Sync folder to tags started", "Sync tags to folder started",
     "Plugin unloaded"}

\* onload: the logger is made with options.debugMode, and clear() and
\* info('Plugin loaded') are awaited one after the other
LoadPlugin(debugMode) ==
    /\ Idle
    /\ call' = [op |-> "logger", enabled |-> debugMode,
                file |-> IF debugMode THEN <<LogEntry("Plugin loaded", 0)>>
                         ELSE <<>>,
                passed |-> IF debugMode THEN <<LogEntry("Plugin loaded", 0)>>
                           ELSE <<>>,
                started |-> 0, calls |-> <<>>]
    /\ UNCHANGED <<rules, ret>>

\* a command callback or onunload calls log and does not await it: log
\* runs to `await adapter.read(this.logPath)`, or returns at once when the
\* logger is not enabled
StartLog(message) ==
    /\ call.op = "logger"
    /\ call.started < MaxLogCalls
    /\ call' = IF ~call.enabled THEN [call EXCEPT !.started = @ + 1]
               ELSE [call EXCEPT
                        !.started = @ + 1,
                        !.passed = Append(@, LogEntry(message, call.started + 1)),
                        !.calls = Append(@,
                            [pc |-> "read", existing |-> <<>>,
                             logEntry |-> LogEntry(message, call.started + 1)])]
    /\ UNCHANGED <<rules, ret>>

\* adapter.read has completed for the call at position i: existing is the
\* file as it is now, and adapter.write(existing + logEntry) is awaited
LogRead(i) ==
    /\ call.op = "logger"
    /\ call.calls[i].pc = "read"
    /\ call' = [call EXCEPT !.calls[i].pc = "write",
                            !.calls[i].existing = call.file]
    /\ UNCHANGED <<rules, ret>>

\* adapter.write has completed for the call at position i, and log returns
LogWrite(i) ==
    /\ call.op = "logger"
    /\ call.calls[i].pc = "write"
    /\ call' = [call EXCEPT
                   !.file = call.calls[i].existing \o <<call.calls[i].logEntry>>,
                   !.calls = SubSeq(@, 1, i - 1) \o SubSeq(@, i + 1, Len(@))]
    /\ UNCHANGED <<rules, ret>>

\* ------------------------------------------------------------------------
\* Specifications
\* ------------------------------------------------------------------------

\* the four matching functions over a rule set
Init ==
    /\ rules \in RuleSets
    /\ call = NoCall
    /\ ret = Return(Null)

Next ==
    \/ \E i \in WhenIdle(DOMAIN rules), input \in MatchInputs, context \in ListContexts :
          EvaluateRule(i, input, context)
    \/ \E input \in WhenIdle(MatchInputs), context \in ListContexts :
          FindMatchingRules(input, context)
    \/ \E input \in WhenIdle(MatchInputs), context \in ListContexts :
          FindBestMatch(input, context)
    \/ FindBestMatchAgain
    \/ \E input \in WhenIdle(MatchInputs), context \in ListContexts :
          FindConflicts(input, context)
    \/ TakeResult

Spec == Init /\ [][Next]_vars

\* evaluateRule on one rule, every pattern and every context
InitEval ==
    /\ rules \in {<<r>> : r \in EvalRules}
    /\ call = NoCall
    /\ ret = Return(Null)

NextEval ==
    \/ \E input \in WhenIdle(MatchInputs), context \in Contexts :
          EvaluateRule(1, input, context)
    \/ TakeResult

SpecEval == InitEval /\ [][NextEval]_vars

\* validateRule
InitValidate ==
    /\ rules = <<>>
    /\ call = NoCall
    /\ ret = Return(Null)

NextValidate ==
    \/ \E rule \in WhenIdle(ValidateRules) : ValidateRule(rule)
    \/ TakeResult

SpecValidate == InitValidate /\ [][NextValidate]_vars

\* the transformation pipeline and its two entry points
InitPipeline ==
    /\ rules = <<>>
    /\ call = NoCall
    /\ ret = Return(Null)

NextPipeline ==
    \/ \E input \in WhenIdle(PipeInputs), config \in Configs, options \in PipelineOptions :
          ApplyTransformPipeline(input, config, options)
    \/ \E input \in WhenIdle(PipeInputs), config \in Configs :
          FolderToTag(input, config)
    \/ \E input \in WhenIdle(PipeInputs), config \in Configs :
          TagToFolder(input, config)
    \/ TakeResult

SpecPipeline == InitPipeline /\ [][NextPipeline]_vars

\* the transformers called one by one: case, glob, custom regex, number
\* prefix, reversibility of a config
InitTransformers ==
    /\ rules = <<>>
    /\ call = NoCall
    /\ ret = Return(Null)

NextTransformers ==
    \/ \E input \in WhenIdle(CaseInputs) : ToSnakeCase(input)
    \/ \E input \in WhenIdle(CaseInputs) : ToKebabCase(input)
    \/ \E input \in WhenIdle(CaseInputs) : ToTitleCase(input)
    \/ \E original \in WhenIdle(CaseInputs) : RoundTrip(original)
    \/ RoundTripAgain
    \/ \E glob \in WhenIdle(Globs) : GlobToRegex(glob)
    \/ \E glob \in WhenIdle(Globs), input \in Paths : TestGlob(glob, input)
    \/ \E input \in WhenIdle(PipeInputs), transform \in Transforms :
          ApplyRegexTransform(input, transform)
    \/ \E input \in WhenIdle(PipeInputs), transforms \in TransformSeqs :
          ApplyRegexTransforms(input, transforms)
    \/ \E input \in WhenIdle(NumInputs) : ExtractNumberPrefix(input)
    \/ \E input \in WhenIdle(NumInputs) : StripNumberPrefix(input)
    \/ \E config \in WhenIdle(Configs) : IsTransformReversible(config)
    \/ TakeResult

SpecTransformers == InitTransformers /\ [][NextTransformers]_vars

\* the pipeline applied to an input, then to its own output
NextTwice ==
    \/ \E input \in WhenIdle(TwiceInputs), config \in TwiceConfigs,
          options \in PipelineOptions :
          ApplyTransformPipeline(input, config, options)
    \/ ApplyTransformPipelineAgain
    \/ TakeResult

SpecTwice == InitTransformers /\ [][NextTwice]_vars

\* the pipeline applied to two inputs under one config
NextPair ==
    \/ \E input \in WhenIdle(PairInputs), config \in PairConfigs :
          ApplyTransformPipeline(input, config, DefaultOptions)
    \/ \E other \in (IF call.op = "applyTransformPipeline"
                      THEN PairInputs ELSE {}) :
          ApplyTransformPipelineOther(other)
    \/ TakeResult

SpecPair == InitTransformers /\ [][NextPair]_vars

\* settings.rules from the empty list of the default settings on, as the
\* settings tab and the rule editor change it, and the syncs over it
InitSettings ==
    /\ rules = <<>>
    /\ call = NoCall
    /\ ret = Return(Null)

NextSettings ==
    \/ OpenNewRule
    \/ \E row \in WhenIdle(DOMAIN rules) : OpenRule(row)
    \/ \E num \in (IF call.op = "ruleEditor" THEN PriorityInputs ELSE {}) :
          ChangePriority(num)
    \/ \E value \in (IF call.op = "ruleEditor" THEN EditorPatterns ELSE {}) :
          ChangeFolderPattern(value)
    \/ \E value \in (IF call.op = "ruleEditor" THEN EditorTagPatterns ELSE {}) :
          ChangeTagPattern(value)
    \/ SaveRule
    \/ CancelRule
    \/ DeleteRule
    \/ \E fromIndex \in WhenIdle(DOMAIN rules), toIndex \in DOMAIN rules :
          DropRule(fromIndex, toIndex)
    \/ \E file \in WhenIdle(SettingsFiles) : SyncFolderToTags(file)
    \/ \E file \in WhenIdle(SettingsFiles), vault \in SettingsVaults :
          SyncTagsToFolder(file, vault)
    \/ HostTakeResult

SpecSettings == InitSettings /\ [][NextSettings]_vars

\* one rule in settings.rules: the two syncs, and the previews of the
\* editor opened on the rule
InitSync ==
    /\ rules \in {<<rule>> : rule \in SyncRules}
    /\ call = NoCall
    /\ ret = Return(Null)

NextSync ==
    \/ \E file \in WhenIdle(SyncFiles) : SyncFolderToTags(file)
    \/ \E file \in WhenIdle(SyncFiles), vault \in SyncVaults :
          SyncTagsToFolder(file, vault)
    \/ \E row \in WhenIdle(DOMAIN rules) : OpenRule(row)
    \/ \E value \in (IF call.op = "ruleEditor" THEN TestValues ELSE {}) :
          TestFolderPath(value)
    \/ \E value \in (IF call.op = "ruleEditor" THEN TestValues ELSE {}) :
          TestTag(value)
    \/ CancelRule
    \/ HostTakeResult

SpecSync == InitSync /\ [][NextSync]_vars

\* the plugin loads, and calls of log overlap
InitLogger ==
    /\ rules = <<>>
    /\ call = NoCall
    /\ ret = Return(Null)

NextLogger ==
    \/ \E debugMode \in WhenIdle(BOOLEAN) : LoadPlugin(debugMode)
    \/ \E message \in (IF call.op = "logger" THEN LogMessages ELSE {}) :
          StartLog(message)
    \/ \E i \in (IF call.op = "logger" THEN DOMAIN call.calls ELSE {}) :
          LogRead(i)
    \/ \E i \in (IF call.op = "logger" THEN DOMAIN call.calls ELSE {}) :
          LogWrite(i)

SpecLogger == InitLogger /\ [][NextLogger]_vars

\* ------------------------------------------------------------------------
\* Properties
\* ------------------------------------------------------------------------

\* the matches of a rule list, rule by rule
MatchSet(input, rs, context) ==
    {evaluateRule(input, rs[i], context).val : i \in DOMAIN rs} \ {Null}

\* C1: findBestMatch returns null iff no rule of the list matches; otherwise
\* it returns one of the matches, no match has a smaller priority number, and
\* no match of that priority has a higher confidence.
C1_BestMatchIsMinimal ==
    call.op = "findBestMatch" =>
        LET ms == MatchSet(call.input, rules, call.context)
        IN  /\ ~ret.threw
            /\ ret.val = Null <=> ms = {}
            /\ ret.val # Null =>
                   /\ ret.val \in ms
                   /\ \A m \in ms : m.rule.priority >= ret.val.rule.priority
                   /\ \A m \in ms :
                          m.rule.priority = ret.val.rule.priority =>
                              ConfCompare(m.confidence, ret.val.confidence) <= 0

\* the second rule is returned although the first one matches with the same
\* priority: its confidence is higher
C1_Witness ==
    /\ call.op = "findBestMatch"
    /\ Len(rules) = 2
    /\ ret.val # Null
    /\ ret.val.rule = rules[2]
    /\ \E m \in MatchSet(call.input, rules, call.context) :
           /\ m.rule = rules[1]
           /\ m.rule.priority = ret.val.rule.priority
           /\ ConfCompare(m.confidence, ret.val.confidence) < 0

\* the rule passes the enabled, direction and pattern-present checks
PassesChecks(rule, context) ==
    /\ rule.enabled \/ context.includeDisabled
    /\ \/ context.direction = NoDirection
       \/ rule.direction = "bidirectional"
       \/ rule.direction = context.direction
    /\ IF context.matchType = "folder"
       THEN rule.folderPattern # Absent /\ rule.folderPattern # <<>>
       ELSE rule.tagPattern # Absent /\ rule.tagPattern # <<>>

\* patternToRegex(pattern) compiles and accepts the input
AcceptedByPatternToRegex(pattern, input) ==
    patternToRegex(pattern).ok /\ RegExpTest(patternToRegex(pattern), input)

\* C2: for a rule that passes the enabled, direction and pattern-present
\* checks, evaluateRule returns a match exactly when patternToRegex(pattern)
\* accepts the input (a pattern with * or ? as an anchored glob, any other
\* pattern as a raw regular expression).
C2_MatchesViaPatternToRegex ==
    (call.op = "evaluateRule" /\ PassesChecks(call.rule, call.context)) =>
        /\ ~ret.threw
        /\ ret.val # Null <=>
               AcceptedByPatternToRegex(
                   IF call.context.matchType = "folder"
                   THEN call.rule.folderPattern ELSE call.rule.tagPattern,
                   call.input)

\* evaluateRule returns a match for a glob pattern that, as a glob, rejects
\* the input
C2_Witness ==
    /\ call.op = "evaluateRule"
    /\ call.context.matchType = "folder"
    /\ PassesChecks(call.rule, call.context)
    /\ isGlobPattern(call.rule.folderPattern)
    /\ ret.val # Null
    /\ ~AcceptedByPatternToRegex(call.rule.folderPattern, call.input)

\* the members of a conflict group
GroupMembers(g) == {g[j] : j \in 1..Len(g)}

\* C3: findConflicts returns exactly the priority classes of the matches
\* that have at least two members: every group has at least two members,
\* all of one priority, no match is in two groups (or twice in one), every
\* member is a match, and every priority shared by two matches has its group.
C3_ConflictsArePriorityClasses ==
    call.op = "findConflicts" =>
        LET ms == MatchSet(call.input, rules, call.context)
            gs == ret.val
        IN  /\ ~ret.threw
            /\ \A k \in 1..Len(gs) :
                   /\ Len(gs[k]) >= 2
                   /\ Cardinality(GroupMembers(gs[k])) = Len(gs[k])
                   /\ \A m, n \in GroupMembers(gs[k]) :
                          m.rule.priority = n.rule.priority
                   /\ GroupMembers(gs[k]) \subseteq ms
                   /\ \A m \in ms :
                          (\E n \in GroupMembers(gs[k]) :
                               n.rule.priority = m.rule.priority)
                              => m \in GroupMembers(gs[k])
            /\ \A k, l \in 1..Len(gs) :
                   k # l => GroupMembers(gs[k]) \cap GroupMembers(gs[l]) = {}
            /\ \A m, n \in ms :
                   (m # n /\ m.rule.priority = n.rule.priority) =>
                       \E k \in 1..Len(gs) : {m, n} \subseteq GroupMembers(gs[k])

\* three rules match: two share a priority and form the only group, the
\* third one is in no group
C3_Witness ==
    /\ call.op = "findConflicts"
    /\ Cardinality(MatchSet(call.input, rules, call.context)) = 3
    /\ Len(ret.val) = 1
    /\ Len(ret.val[1]) = 2

\* the stages of the pipeline in their documented order
StageOrder ==
    <<"trim", "emoji", "number", "case", "regex", "tagchars", "trim">>

\* the same stages with the custom transforms after the tag characters
StageOrderStripFirst ==
    <<"trim", "emoji", "number", "case", "tagchars", "regex", "trim">>

\* the custom transforms one after the other, in array order
RECURSIVE RegexStage(_, _)
RegexStage(s, transforms) ==
    IF transforms = <<>> THEN s
    ELSE RegexStage(applyRegexTransform(s, Head(transforms)).val, Tail(transforms))

\* one configured stage applied to s
ApplyStage(stage, s, config, options) ==
    CASE stage = "trim" -> Trim(s)
      [] stage = "emoji" ->
           IF config.emojiHandling = "strip" THEN stripEmoji(s) ELSE s
      [] stage = "number" ->
           IF config.numberPrefixHandling = "strip" THEN extractNumberPrefix(s).name
           ELSE IF config.numberPrefixHandling = "extract"
                   /\ extractNumberPrefix(s).name # <<>>
                THEN extractNumberPrefix(s).name
           ELSE s
      [] stage = "case" ->
           IF config.caseTransform \in {Undefined, "none"} THEN s
           ELSE JoinSlash([j \in 1..Len(SplitSlash(s, <<>>)) |->
                    applyCaseTransform(SplitSlash(s, <<>>)[j], config.caseTransform)])
      [] stage = "regex" -> RegexStage(s, config.customTransforms)
      [] stage = "tagchars" ->
           IF options.isTagTransform
           THEN SelectSeq(s, LAMBDA c : c \notin {".", ":", ";", ",", "?", "!", "@", "\\"})
           ELSE s

RECURSIVE ComposeStages(_, _, _, _)
ComposeStages(order, s, config, options) ==
    IF order = <<>> THEN s
    ELSE ComposeStages(Tail(order), ApplyStage(Head(order), s, config, options),
                       config, options)

\* C4: the result of applyTransformPipeline is the composition of the
\* configured stages in the order trim, emoji handling, number-prefix
\* handling, per-segment case transform, custom regex transforms in array
\* order, invalid-tag-character stripping (tag mode only), trim.
C4_StagesInFixedOrder ==
    call.op = "applyTransformPipeline" =>
        ret = Return(ComposeStages(StageOrder, call.input, call.config,
                                   call.options))

\* a call whose result the other order of stages 5 and 6 would change, with
\* a case transform and two custom transforms configured
C4_Witness ==
    /\ call.op = "applyTransformPipeline"
    /\ call.options.isTagTransform
    /\ call.config.caseTransform \notin {Undefined, "none"}
    /\ Len(call.config.customTransforms) = 2
    /\ ret.val # ComposeStages(StageOrderStripFirst, call.input, call.config,
                               call.options)

\* new RegExp(pattern) throws
Malformed(pattern) == ~RegExpNew(pattern, Absent).ok

\* C5: evaluateRule, findMatchingRules, findBestMatch and findConflicts never
\* throw, and a rule whose pattern does not compile is a non-match: null from
\* evaluateRule, absent from the results of the other three.
C5_MatcherNeverThrows ==
    /\ call.op \in {"evaluateRule", "findMatchingRules", "findBestMatch",
                    "findConflicts"} => ~ret.threw
    /\ (call.op = "evaluateRule" /\ ~NoPattern(call.rule.folderPattern)
            /\ Malformed(call.rule.folderPattern)) => ret.val = Null
    /\ call.op = "findMatchingRules" =>
           \A j \in 1..Len(ret.val) : ~Malformed(ret.val[j].rule.folderPattern)
    /\ (call.op = "findBestMatch" /\ ret.val # Null) =>
           ~Malformed(ret.val.rule.folderPattern)
    /\ call.op = "findConflicts" =>
           \A k \in 1..Len(ret.val) : \A j \in 1..Len(ret.val[k]) :
               ~Malformed(ret.val[k][j].rule.folderPattern)

\* a rule list with a malformed pattern in front of a matching rule: the
\* result holds the matching rule only
C5_Witness ==
    /\ call.op = "findMatchingRules"
    /\ Len(rules) >= 2
    /\ Malformed(rules[1].folderPattern)
    /\ ~ret.threw
    /\ Len(ret.val) = 1
    /\ ret.val[1].rule = rules[2]

\* some custom transform of the list has a pattern or flags new RegExp rejects
HasFailingTransform(transforms) ==
    \E j \in 1..Len(transforms) :
        ~RegExpNew(transforms[j].pattern,
                   IF transforms[j].flags = Absent THEN <<"g">>
                   ELSE transforms[j].flags).ok

\* C6: when a custom regex transform is not a valid regular expression and
\* the caller passed preserveOnError: true, applyTransformPipeline returns the
\* original input exactly as passed and throws nothing.
C6_PreservesOriginalOnError ==
    (call.op = "applyTransformPipeline" /\ call.options.preserveOnError
        /\ HasFailingTransform(call.config.customTransforms)) =>
        ret = Return(call.input)

\* the failing call returns something else than the input it was given
C6_Witness ==
    /\ call.op = "applyTransformPipeline"
    /\ call.options.preserveOnError
    /\ HasFailingTransform(call.config.customTransforms)
    /\ ~ret.threw
    /\ ret.val # call.input

\* a field that is undefined or the empty string
Missing(field) == field = Absent \/ field = <<>>

\* the messages validateRule owes a rule
ExpectedErrors(rule) ==
    (IF Missing(rule.id) THEN {"Rule must have a valid ID"} ELSE {})
    \cup (IF Missing(rule.name) THEN {"Rule must have a name"} ELSE {})
    \cup (IF rule.priority < 0 THEN {"Priority must be non-negative"} ELSE {})
    \cup (IF rule.direction \in {"folder-to-tag", "bidirectional"}
             /\ Missing(rule.folderPattern)
          THEN {"Folder-to-tag rules must have a folder pattern"} ELSE {})
    \cup (IF rule.direction \in {"tag-to-folder", "bidirectional"}
             /\ Missing(rule.tagPattern)
          THEN {"Tag-to-folder rules must have a tag pattern"} ELSE {})
    \cup (IF ~Missing(rule.folderPattern) /\ ~patternToRegex(rule.folderPattern).ok
          THEN {"Invalid folder pattern"} ELSE {})
    \cup (IF ~Missing(rule.tagPattern) /\ ~patternToRegex(rule.tagPattern).ok
          THEN {"Invalid tag pattern"} ELSE {})

\* C7: the errors of validateRule hold a message for every violated condition
\* (id, name, priority, the pattern the direction requires, a pattern that
\* does not compile), and valid is true iff the list is empty; a rule whose
\* direction requires an absent pattern is not valid.
C7_ValidateAccumulates ==
    call.op = "validateRule" =>
        /\ ~ret.threw
        /\ ExpectedErrors(call.rule) \subseteq
               {ret.val.errors[j] : j \in 1..Len(ret.val.errors)}
        /\ ret.val.valid <=> ret.val.errors = <<>>
        /\ (\/ /\ call.rule.direction \in {"folder-to-tag", "bidirectional"}
               /\ call.rule.folderPattern = Absent
            \/ /\ call.rule.direction \in {"tag-to-folder", "bidirectional"}
               /\ call.rule.tagPattern = Absent)
               => ~ret.val.valid /\ ret.val.errors # <<>>

\* a rule that violates four conditions at once gets at least four messages
C7_Witness ==
    /\ call.op = "validateRule"
    /\ Cardinality(ExpectedErrors(call.rule)) >= 4
    /\ Len(ret.val.errors) >= 4
    /\ ~ret.val.valid

\* the characters a tag must not contain: . : ; , ? ! @ \
TagIllegal == {".", ":", ";", ",", "?", "!", "@", "\\"}

\* the config configures no stage
NoStage(config) ==
    /\ config.emojiHandling = Undefined
    /\ config.numberPrefixHandling = Undefined
    /\ config.caseTransform = Undefined
    /\ config.customTransforms = <<>>

\* C8: the string folderToTag returns contains none of . : ; , ? ! @ \ for
\* any input and config, and tagToFolder with a config that configures no
\* stage returns the trimmed input with those characters intact.
C8_TagCharsOnlyInTagMode ==
    /\ call.op = "folderToTag" =>
           /\ ~ret.threw
           /\ \A j \in 1..Len(ret.val) : ret.val[j] \notin TagIllegal
    /\ (call.op = "tagToFolder" /\ NoStage(call.config)) =>
           ret = Return(Trim(call.input))

\* folderToTag on a folder name without such a character, where a custom
\* transform writes one: the result has none
C8_Witness ==
    /\ call.op = "folderToTag"
    /\ \A j \in 1..Len(call.input) : call.input[j] \notin TagIllegal
    /\ \E j \in 1..Len(call.input) : call.input[j] = "a"
    /\ call.config.caseTransform = Undefined
    /\ call.config.customTransforms = <<TransformA>>
    /\ ~ret.threw
    /\ \A j \in 1..Len(ret.val) : ret.val[j] \notin TagIllegal

\* C9: the confidence of every RuleMatch evaluateRule returns is a number in
\* [0, 1], neither NaN nor infinite, also for the empty input; it is exactly
\* 1 when the pattern and the input are the same string.
C9_ConfidenceInUnitInterval ==
    (call.op = "evaluateRule" /\ ~ret.threw /\ ret.val # Null) =>
        /\ ret.val.confidence.kind = "num"
        /\ ret.val.confidence.den > 0
        /\ 0 <= ret.val.confidence.num
        /\ ret.val.confidence.num <= ret.val.confidence.den
        /\ ret.val.matchedPattern = call.input =>
               ret.val.confidence.num = ret.val.confidence.den

\* a match on the empty input: the division by input.length is by zero
C9_Witness ==
    /\ call.op = "evaluateRule"
    /\ call.input = <<>>
    /\ ~ret.threw
    /\ ret.val # Null
    /\ ret.val.confidence = Conf(1, 1)

\* C10: evaluateRule returns a match only if the rule is enabled or the
\* context sets includeDisabled, the context supplies no direction or the
\* rule's direction is bidirectional or the supplied one, and the pattern
\* field matchType selects is present; in every other case it returns null.
C10_MatchOnlyIfChecksPass ==
    call.op = "evaluateRule" =>
        /\ ~ret.threw
        /\ ret.val # Null => PassesChecks(call.rule, call.context)

\* null for a direction the rule does not serve, although the rule is enabled
\* and its pattern matches the input
C10_Witness ==
    /\ call.op = "evaluateRule"
    /\ call.rule.enabled
    /\ call.context.direction # NoDirection
    /\ call.rule.direction # "bidirectional"
    /\ call.rule.direction # call.context.direction
    /\ call.context.matchType = "folder"
    /\ ~NoPattern(call.rule.folderPattern)
    /\ matchesPattern(call.input, call.rule.folderPattern, Absent).val
    /\ ret.val = Null

\* C20: findMatchingRules returns, in the order of the rule list, exactly
\* one match for each rule evaluateRule does not reject: nothing sorted,
\* nothing left out, nothing twice.
C20_MatchesInRuleOrder ==
    call.op = "findMatchingRules" =>
        ret = Return(SelectSeq(
                  [i \in 1..Len(rules) |->
                      evaluateRule(call.input, rules[i], call.context).val],
                  LAMBDA m : m # Null))

\* two matches returned in list order although the second rule has the
\* smaller priority number, with a rejected rule between them
C20_Witness ==
    /\ call.op = "findMatchingRules"
    /\ Len(rules) = 3
    /\ Len(ret.val) = 2
    /\ ret.val[1].rule = rules[1]
    /\ ret.val[2].rule = rules[3]
    /\ rules[3].priority < rules[1].priority

\* C17: with numberPrefixHandling 'extract' the pipeline returns what it
\* returns with 'strip', for every input and every setting of the other
\* stages.
C17_ExtractEqualsStrip ==
    (call.op = "applyTransformPipeline"
        /\ call.config.numberPrefixHandling = "extract") =>
        ret = applyTransformPipeline(call.input,
                  [call.config EXCEPT !.numberPrefixHandling = "strip"],
                  call.options)

\* an extract call on a name with a number prefix: the numeral is gone, and
\* 'keep' would have left it
C17_Witness ==
    /\ call.op = "applyTransformPipeline"
    /\ call.config.numberPrefixHandling = "extract"
    /\ call.config.emojiHandling = Undefined
    /\ extractNumberPrefix(Trim(call.input)).fullMatch
    /\ ret # applyTransformPipeline(call.input,
                 [call.config EXCEPT !.numberPrefixHandling = "keep"],
                 call.options)

\* the conditions of isTransformReversible that apply to a config
LossyConditions(config) ==
    (IF config.emojiHandling = "strip" THEN {"emoji"} ELSE {})
    \cup (IF config.numberPrefixHandling \in {"strip", "extract"}
          THEN {"number"} ELSE {})
    \cup (IF config.customTransforms # <<>> THEN {"regex"} ELSE {})

CaseCondition(config) ==
    config.caseTransform \notin {Undefined, "none", "Title Case"}

\* C14: reversible is false exactly when the config strips emoji, strips or
\* extracts the number prefix, or has custom transforms; a case transform
\* other than 'none' and 'Title Case' adds a warning without clearing
\* reversible; every condition that applies has its own warning.
C14_ReversibleExactlyWhenLossless ==
    call.op = "isTransformReversible" =>
        LET ws == {ret.val.warnings[j] : j \in 1..Len(ret.val.warnings)}
        IN  /\ ~ret.threw
            /\ ret.val.reversible <=> LossyConditions(call.config) = {}
            /\ "Emoji stripping is not reversible" \in ws
                   <=> "emoji" \in LossyConditions(call.config)
            /\ "Number prefix removal is not reversible" \in ws
                   <=> "number" \in LossyConditions(call.config)
            /\ "Custom regex transformations may not be reversible" \in ws
                   <=> "regex" \in LossyConditions(call.config)
            /\ (\E w \in ws : w \notin
                       {"Emoji stripping is not reversible",
                        "Number prefix removal is not reversible",
                        "Custom regex transformations may not be reversible"})
                   <=> CaseCondition(call.config)
            /\ Len(ret.val.warnings)
                   = Cardinality(LossyConditions(call.config))
                     + (IF CaseCondition(call.config) THEN 1 ELSE 0)

\* a config whose only finding is the case transform: one warning, and
\* reversible stays true
C14_Witness ==
    /\ call.op = "isTransformReversible"
    /\ call.config.caseTransform = "snake_case"
    /\ LossyConditions(call.config) = {}
    /\ ret.val.reversible
    /\ Len(ret.val.warnings) = 1

\* the transform t applied to s by the regular expression engine, s itself
\* when the pattern of t is not a regular expression
ReplaceOrKeep(compiled, s, t) ==
    IF compiled.ok THEN RegExpReplace(compiled, s, t.replacement) ELSE s

\* s after the first n of the transforms
RECURSIVE AfterTransforms(_, _, _)
AfterTransforms(s, transforms, n) ==
    IF n = 0 THEN s
    ELSE ReplaceOrKeep(RegExpNew(transforms[n].pattern,
                                 IF transforms[n].flags = Absent THEN <<"g">>
                                 ELSE transforms[n].flags),
                       AfterTransforms(s, transforms, n - 1), transforms[n])

\* C18: applyRegexTransforms applies the transforms in array order, each to
\* the output of the one before; a transform whose pattern is not a valid
\* regular expression leaves the string as it is and throws nothing, and the
\* transforms after it are still applied.
C18_TransformsInArrayOrder ==
    /\ call.op = "applyRegexTransforms" =>
           ret = Return(AfterTransforms(call.input, call.transforms,
                                        Len(call.transforms)))
    /\ (call.op = "applyRegexTransform" /\ Malformed(call.transform.pattern)) =>
           ret = Return(call.input)

\* an invalid transform followed by one that changed the string
C18_Witness ==
    /\ call.op = "applyRegexTransforms"
    /\ Len(call.transforms) = 2
    /\ Malformed(call.transforms[1].pattern)
    /\ ~Malformed(call.transforms[2].pattern)
    /\ ~ret.threw
    /\ ret.val # call.input

\* s begins with digits followed by a hyphen after optional whitespace, or
\* by whitespace after an optional dot
BeginsWithPrefix(s) ==
    \E d \in 1..Len(s) :
        /\ \A j \in 1..d : s[j] \in DigitChars
        /\ \E k \in (d + 1)..Len(s) :
               \/ s[k] = "-" /\ \A j \in (d + 1)..(k - 1) : s[j] \in WhiteChars
               \/ s[k] \in WhiteChars
                    /\ (k = d + 1 \/ (k = d + 2 /\ s[d + 1] = "."))

\* C19: for an input that does not begin with such a prefix,
\* extractNumberPrefix returns {number: null, name: input, fullMatch: false}
\* and stripNumberPrefix returns the input, so digits in the middle of the
\* string stay.
C19_PrefixOnlyAtStart ==
    /\ (call.op = "extractNumberPrefix" /\ ~BeginsWithPrefix(call.input)) =>
           ret = Return([number |-> Absent, name |-> call.input,
                         fullMatch |-> FALSE])
    /\ (call.op = "stripNumberPrefix" /\ ~BeginsWithPrefix(call.input)) =>
           ret = Return(call.input)

\* digits and a separator in the middle of a name, left where they are
C19_Witness ==
    /\ call.op = "stripNumberPrefix"
    /\ ~BeginsWithPrefix(call.input)
    /\ \E j \in 2..(Len(call.input) - 2) :
           /\ call.input[j] \in DigitChars
           /\ call.input[j + 1] \in WhiteChars \cup {"-"}
    /\ ret = Return(call.input)

\* the glob has no ** in it
OnlySingleStars(glob) ==
    \A j \in 1..(Len(glob) - 1) : ~(glob[j] = "*" /\ glob[j + 1] = "*")

\* the whole of s matches the glob g of literal characters and single stars,
\* a star standing for a run of characters other than the slash
RECURSIVE StarMatch(_, _)
StarMatch(g, s) ==
    IF g = <<>> THEN s = <<>>
    ELSE IF Head(g) = "*"
         THEN \E k \in 0..Len(s) :
                 /\ \A j \in 1..k : s[j] # "/"
                 /\ StarMatch(Tail(g), SubSeq(s, k + 1, Len(s)))
    ELSE s # <<>> /\ Head(s) = Head(g) /\ StarMatch(Tail(g), Tail(s))

\* the glob is prefix/** with a prefix that has no ** in it
TrailingDoubleStar(glob) ==
    /\ Len(glob) >= 3
    /\ SubSeq(glob, Len(glob) - 2, Len(glob)) = <<"/", "*", "*">>
    /\ OnlySingleStars(SubSeq(glob, 1, Len(glob) - 3))

\* s is below the prefix: the prefix, a slash, then anything
BelowPrefix(prefix, s) ==
    \E k \in 1..Len(s) :
        s[k] = "/" /\ StarMatch(prefix, SubSeq(s, 1, k - 1))

\* C15: the expression globToRegex produces is anchored with ^ and $; a
\* single * stands for a run of non-slash characters only, so a/* matches
\* a/a but no path with a further slash; a trailing /** matches everything
\* below the prefix at any depth.
C15_GlobAnchoredStarAndDoubleStar ==
    /\ call.op = "globToRegex" =>
           /\ ~ret.threw
           /\ Len(ret.val) >= 2
           /\ Head(ret.val) = "^"
           /\ ret.val[Len(ret.val)] = "$"
    /\ (call.op = "testGlob" /\ OnlySingleStars(call.glob)) =>
           ret = Return(StarMatch(call.glob, call.input))
    /\ (call.op = "testGlob" /\ TrailingDoubleStar(call.glob)) =>
           ret = Return(BelowPrefix(SubSeq(call.glob, 1, Len(call.glob) - 3),
                                    call.input))

\* a/* refusing a/a/a, or a/** accepting it
C15_Witness ==
    /\ call.op = "testGlob"
    /\ call.input = <<"a", "/", "a", "/", "a">>
    /\ \/ call.glob = <<"a", "/", "*">> /\ ret = Return(FALSE)
       \/ call.glob = <<"a", "/", "*", "*">> /\ ret = Return(TRUE)

\* s has no upper case letter, no two separators sep in a row and no
\* separator at its start
SeparatedLowerCase(s, sep) ==
    /\ \A j \in 1..Len(s) : s[j] \notin UpperChars
    /\ \A j \in 1..(Len(s) - 1) : ~(s[j] = sep /\ s[j + 1] = sep)
    /\ s = <<>> \/ Head(s) # sep

\* C16: for every input, the results of toSnakeCase and toKebabCase have no
\* upper case letter, no run of two or more separators, and do not begin
\* with a separator (_ for snake_case, - for kebab-case).
C16_SnakeKebabNormalForm ==
    /\ call.op = "toSnakeCase" => SeparatedLowerCase(ret.val, "_")
    /\ call.op = "toKebabCase" => SeparatedLowerCase(ret.val, "-")

\* a snake_case result that begins with an underscore
C16_Witness ==
    /\ call.op = "toSnakeCase"
    /\ ret.val # <<>>
    /\ Head(ret.val) = "_"

\* the words of s: its maximal runs of characters that are not in seps;
\* cur is the word being read
RECURSIVE SplitWords(_, _, _)
SplitWords(s, seps, cur) ==
    IF s = <<>> THEN (IF cur = <<>> THEN <<>> ELSE <<cur>>)
    ELSE IF Head(s) \in seps
         THEN (IF cur = <<>> THEN <<>> ELSE <<cur>>)
              \o SplitWords(Tail(s), seps, <<>>)
    ELSE SplitWords(Tail(s), seps, Append(cur, Head(s)))

RECURSIVE JoinSpaces(_)
JoinSpaces(words) ==
    IF words = <<>> THEN <<>>
    ELSE IF Len(words) = 1 THEN words[1]
    ELSE words[1] \o <<" ">> \o JoinSpaces(Tail(words))

\* the words of s, each with a capital first letter, single spaces between
TitleOfWords(s) ==
    JoinSpaces([j \in 1..Len(SplitWords(s, {" ", "_"}, <<>>)) |->
                  <<ToUpperChar(Head(SplitWords(s, {" ", "_"}, <<>>)[j]))>>
                  \o Tail(SplitWords(s, {" ", "_"}, <<>>)[j])])

\* lower case letters, spaces and underscores only
LowerSpaceUnderscore(s) ==
    \A j \in 1..Len(s) : s[j] \in LowerChars \cup {" ", "_"}

\* C12, as stated: for every input x of lower case letters, spaces and
\* underscores, toTitleCase(toSnakeCase(x)) is x, also after repeated round
\* trips.
C12_LowerCaseRoundTripIsIdentity ==
    (call.op = "roundTrip" /\ LowerSpaceUnderscore(call.input)) =>
        ret = Return(call.input)

\* C12: for every input x of lower case letters, spaces and underscores,
\* toTitleCase(toSnakeCase(x)) is the Title Case form of x (its words with a
\* capital first letter, joined by single spaces), and that same string is
\* obtained after any number of repeated round trips.
C12_LowerCaseRoundTripIsTitleForm ==
    (call.op = "roundTrip" /\ LowerSpaceUnderscore(call.input)) =>
        ret = Return(TitleOfWords(call.input))

\* two lower case words joined by an underscore, after the last round trip
C12_Witness ==
    /\ call.op = "roundTrip"
    /\ call.trips = MaxRoundTrips
    /\ LowerSpaceUnderscore(call.input)
    /\ Len(SplitWords(call.input, {" ", "_"}, <<>>)) = 2
    /\ \E j \in 1..Len(call.input) : call.input[j] = "_"
    /\ ret.val # call.input

\* alphabetic words, each a capital letter followed by lower case letters,
\* with single spaces between them
IsTitleCase(s) ==
    /\ s # <<>>
    /\ s = JoinSpaces(SplitWords(s, {" "}, <<>>))
    /\ \A j \in 1..Len(SplitWords(s, {" "}, <<>>)) :
           /\ Head(SplitWords(s, {" "}, <<>>)[j]) \in UpperChars
           /\ \A k \in 2..Len(SplitWords(s, {" "}, <<>>)[j]) :
                  SplitWords(s, {" "}, <<>>)[j][k] \in LowerChars

\* C13: for every Title Case string x, toTitleCase(toSnakeCase(x)) is x, and
\* x is still the result after each repetition of the round trip, up to the
\* five the test makes.
C13_TitleCaseRoundTripIsIdentity ==
    (call.op = "roundTrip" /\ IsTitleCase(call.input)) =>
        ret = Return(call.input)

\* a Title Case string of two words after the fifth round trip
C13_Witness ==
    /\ call.op = "roundTrip"
    /\ call.trips = 5
    /\ IsTitleCase(call.input)
    /\ Len(SplitWords(call.input, {" "}, <<>>)) = 2
    /\ ret = Return(call.input)

\* the config has emoji handling and a case transform at most: no number
\* prefix stripping, no custom transform
IdempotentStages(config) ==
    /\ config.numberPrefixHandling \in {Undefined, "keep"}
    /\ config.customTransforms = <<>>

\* C11: for a config of emoji handling and a case transform only,
\* applyTransformPipeline called on the output of a first call, with the same
\* config and options, returns that output again, for every input.
C11_PipelineIdempotent ==
    (call.op = "applyTransformPipelineAgain" /\ IdempotentStages(call.config)) =>
        ret = Return(call.input)

\* a snake_case result that the second call changes, outside tag mode
C11_Witness ==
    /\ call.op = "applyTransformPipelineAgain"
    /\ IdempotentStages(call.config)
    /\ call.config.caseTransform = "snake_case"
    /\ ~call.options.isTagTransform
    /\ ~ret.threw
    /\ ret.val # call.input

\* the positions of the rules that match like ret.val: same priority, equal
\* confidence
TiedWithResult(input, rs, context, best) ==
    {i \in DOMAIN rs :
        /\ evaluateRule(input, rs[i], context).val # Null
        /\ rs[i].priority = best.rule.priority
        /\ ConfCompare(evaluateRule(input, rs[i], context).val.confidence,
                       best.confidence) = 0}

\* C30: when several matches share the minimum priority and have equal
\* confidence, findBestMatch returns the one whose rule comes first in the
\* rule order, and the same call made again returns the same rule.
C30_TieGoesToFirstRule ==
    /\ (call.op = "findBestMatch" /\ ret.val # Null) =>
           \A i \in TiedWithResult(call.input, rules, call.context, ret.val) :
               \E k \in 1..i : ret.val.rule = rules[k]
    /\ call.op = "findBestMatchAgain" => ret = call.first

\* the call made again, two later rules tied with the rule returned
C30_Witness ==
    /\ call.op = "findBestMatchAgain"
    /\ ret.val # Null
    /\ Cardinality(TiedWithResult(call.input, rules, call.context, ret.val)) >= 2
    /\ ret.val.rule = rules[2]
    /\ ret = call.first

\* C21: evaluateRule, findMatchingRules, findBestMatch and findConflicts
\* leave the rule sequence and every rule in it as they were: same rules, same
\* order, same field values; the sort inside findBestMatch does not reorder
\* the caller's array.
C21_RulesUnchanged ==
    [][call'.op \in {"evaluateRule", "findMatchingRules", "findBestMatch",
                     "findBestMatchAgain", "findConflicts"}
          => rules' = rules]_vars

\* findBestMatch has returned the second rule, sorted before the first one,
\* and the first rule is still first
C21_Witness ==
    /\ call.op = "findBestMatch"
    /\ Len(rules) >= 2
    /\ ret.val # Null
    /\ ret.val.rule = rules[2]
    /\ rules[1].priority > rules[2].priority
    /\ evaluateRule(call.input, rules[1], call.context).val # Null

\* validateRule reports no invalid-pattern error for the rule
PatternsAccepted(rule) ==
    \A j \in 1..Len(validateRule(rule).errors) :
        validateRule(rule).errors[j]
            \notin {"Invalid folder pattern", "Invalid tag pattern"}

\* C24: every pattern validateRule accepts also compiles when evaluateRule
\* matches against it, so a rule that validates is never unmatched for every
\* input because its pattern fails to compile at match time.
C24_AcceptedPatternCompilesAtMatch ==
    (call.op = "evaluateRule" /\ PassesChecks(call.rule, call.context)
        /\ PatternsAccepted(call.rule)) =>
        ~Malformed(SelectedPattern(call.rule, call.context))

\* a rule with an accepted pattern that matchesPattern cannot compile, and
\* that did not match
C24_Witness ==
    /\ call.op = "evaluateRule"
    /\ PassesChecks(call.rule, call.context)
    /\ PatternsAccepted(call.rule)
    /\ validateRule(call.rule).valid
    /\ Malformed(SelectedPattern(call.rule, call.context))
    /\ ret.val = Null

C25_DropMovesDisplayedRow ==
    call.op = "drop" =>
        sortedRules(rules) =
            dropRules(call.displayed, call.fromIndex, call.toIndex)

\* a drop of one of two rows on the other after which the rows are in the
\* order they had before
C25_Witness ==
    /\ call.op = "drop"
    /\ Len(rules) = 2
    /\ Len(call.displayed) = 2
    /\ call.displayed[1].id # call.displayed[2].id
    /\ \A i \in 1..2 : sortedRules(rules)[i].id = call.displayed[i].id

\* the rule a sync should take: the first matching one in the rows of the
\* settings tab
TopmostFolderRule(folder, rs) ==
    findMatchingRules(folder, sortedRules(rs), FolderToTagContext).val[1].rule

TopmostTagRule(tags, rs) ==
    determineTargetFolder(tags, sortedRules(rs)).val.rule

\* C22: when several rules match the folder of a file (or one of its tags),
\* the sync applies the matching rule with the lowest priority number, the
\* one shown topmost in the settings list, whatever rules were added,
\* edited, deleted and reordered before.
C22_SyncAppliesTopmostMatchingRule ==
    /\ (call.op = "syncFolderToTags" /\ ret.val.rule # NotFound) =>
           ret.val.rule[1] = TopmostFolderRule(call.file.folder, rules)
    /\ (call.op = "syncTagsToFolder" /\ ret.val.rule # NotFound) =>
           ret.val.rule[1] = TopmostTagRule(call.file.tags, rules)

\* a folder-to-tag sync that applied a rule although another enabled rule
\* with the same folder pattern has a lower priority number
C22_Witness ==
    /\ call.op = "syncFolderToTags"
    /\ ret.val.rule # NotFound
    /\ \E i \in DOMAIN rules :
          /\ rules[i].enabled
          /\ rules[i].folderPattern = ret.val.rule[1].folderPattern
          /\ rules[i].priority < ret.val.rule[1].priority

\* C27: a rule in settings.rules changes only through a Save that passed
\* validateRule: after Cancel, and after a Save that validation refused,
\* the rule the editor was opened on is in settings.rules as it was when
\* the editor was opened.
C27_DiscardedEditsLeaveRule ==
    (/\ call.op \in {"ruleEditor", "ruleEditorClosed"}
     /\ ~call.isNew
     /\ \/ call.op = "ruleEditorClosed" /\ call.by = "cancel"
        \/ call.op = "ruleEditor" /\ call.rejected) =>
        rules[findIndex(rules, call.opened.id)] = call.opened

\* an editor opened on a row and closed with Cancel, with the rule in
\* settings.rules no longer what it was, and not valid
C27_Witness ==
    /\ call.op = "ruleEditorClosed"
    /\ call.by = "cancel"
    /\ ~call.isNew
    /\ validateRule(call.opened).valid
    /\ rules[findIndex(rules, call.opened.id)] # call.opened
    /\ ~validateRule(rules[findIndex(rules, call.opened.id)]).valid

\* C23: a sync performs only the side effects the options of the applied
\* rule allow: the folder-to-tag sync adds no tag to the file when the
\* rule's options.addTags is false, and the tag-to-folder sync creates no
\* folder when the rule's options.createFolders is false.
C23_OptionsLimitSideEffects ==
    /\ (call.op = "syncFolderToTags" /\ ret.val.rule # NotFound
            /\ ~ret.val.rule[1].options.addTags) =>
           ret.val.tags = call.file.tags
    /\ (call.op = "syncTagsToFolder" /\ ret.val.rule # NotFound
            /\ ~ret.val.rule[1].options.createFolders) =>
           ret.val.created = {}

\* a folder-to-tag sync that added a tag under a rule whose addTags is
\* false
C23_Witness ==
    /\ call.op = "syncFolderToTags"
    /\ ret.val.rule # NotFound
    /\ ~ret.val.rule[1].options.addTags
    /\ ret.val.message = "Tag added successfully"
    /\ Len(ret.val.tags) = Len(call.file.tags) + 1

\* a tag-to-folder sync that created the target folder under a rule whose
\* createFolders is false
C23_WitnessFolder ==
    /\ call.op = "syncTagsToFolder"
    /\ ret.val.rule # NotFound
    /\ ~ret.val.rule[1].options.createFolders
    /\ ret.val.created # {}

\* C26: the previews of the rule editor agree with the syncs: the folder
\* path preview shows the test path transformed under the config
\* FolderToTagSync applies to the rule when it generates the tag, and the
\* tag preview shows the test tag transformed under the config
\* TagToFolderSync applies.
C26_PreviewUsesSyncConfig ==
    /\ (call.op = "ruleEditor" /\ ret.val # Null /\ ret.val.test = "folder") =>
           Found(WithHash(JoinEntryPoint(call.rule.tagEntryPoint, ret.val.result)))
               = TagOfPath(Return(ret.val.value), call.rule)
    /\ (call.op = "ruleEditor" /\ ret.val # Null /\ ret.val.test = "tag") =>
           Found(JoinEntryPoint(call.rule.folderEntryPoint, ret.val.result))
               = FolderOfContent(Return(ret.val.value), call.rule)

\* a folder path preview of a rule whose two configs differ, with a result
\* that is not the one the pipeline gives under the rule's tagTransforms
C26_Witness ==
    /\ call.op = "ruleEditor"
    /\ ret.val # Null
    /\ ret.val.test = "folder"
    /\ call.rule.folderTransforms # call.rule.tagTransforms
    /\ ret.val.result #
         applyTransformPipeline(ret.val.value, call.rule.tagTransforms,
             [isTagTransform |-> TRUE, preserveOnError |-> FALSE]).val

\* C28: while debug logging is enabled every entry passed to
\* DebugLogger.log ends up in the log file: once the calls of log have
\* returned, each entry passed is in debug.log, also when calls overlapped.
C28_NoLogEntryLost ==
    (call.op = "logger" /\ call.enabled /\ call.calls = <<>>) =>
        \A k \in DOMAIN call.passed :
            \E j \in DOMAIN call.file : call.file[j] = call.passed[k]

\* two calls of log have returned and the file holds the entry of one of
\* them only
C28_Witness ==
    /\ call.op = "logger"
    /\ call.enabled
    /\ call.calls = <<>>
    /\ call.started = 2
    /\ Len(call.passed) = 3
    /\ Len(call.file) = 2

====
